---- MODULE Spec2Model ----
(***************************************************************************)
(* Model of blog_mcp_server.py: the repository registry, the default-branch *)
(* map, the per-repository back-links cache and the tools built on them.   *)
(* Tool invocations are coroutines on one event loop: a step of the model   *)
(* is the code a coroutine runs between two suspension points (awaits of    *)
(* an HTTP response).  The specifications below run one invocation at a     *)
(* time, except SpecRace, which interleaves two; within get_recent_changes  *)
(* the commit-detail fetches run concurrently under the semaphore.          *)
(***************************************************************************)
EXTENDS Integers, Sequences, FiniteSets, TLC

VARIABLES
    GITHUB_REPOS,            \* environment: the repository spec, a string of characters
    _available_repos,        \* None or the resolved list of repository names
    _repo_default_branches,  \* repo -> branch
    _repo_caches,            \* repo -> parsed back-links document
    _repo_cache_timestamps,  \* repo -> time.time() of the call that stored the document
    fetchedAt,               \* repo -> clock value when the stored document arrived (observer)
    now,                     \* the wall clock, in seconds
    httpCount,               \* number of HTTP requests issued so far
    pc,                      \* task -> suspension point
    call,                    \* task -> the invocation in progress (tool and arguments)
    frame,                   \* task -> local variables live across the suspension
    last                     \* the invocation that finished last, and what it returned or raised

vars == <<GITHUB_REPOS, _available_repos, _repo_default_branches, _repo_caches,
          _repo_cache_timestamps, fetchedAt, now, httpCount, pc, call, frame, last>>

shared == <<_available_repos, _repo_default_branches, _repo_caches,
            _repo_cache_timestamps, fetchedAt>>

----------------------------------------------------------------------------
(* Bounds and program constants *)

CACHE_DURATION == 300
SEMAPHORE_PERMITS == 15
MaxTime == 301
MaxWait == 2
MaxListed == 2
ExtraCommits == 1

None == "None"
DEFAULT_REPO == "r1"
MainTask == "main"
SecondTask == "second"
Tasks == {MainTask, SecondTask}
Latency == {0, 1}
Branches == {"main", "master"}

----------------------------------------------------------------------------
(* Strings are sequences of one-character strings *)

RECURSIVE Join(_)
Join(s) == IF s = <<>> THEN "" ELSE s[1] \o Join(Tail(s))

RECURSIVE Split(_, _)
Split(s, sep) ==
    IF \A i \in 1..Len(s) : s[i] # sep
    THEN <<s>>
    ELSE LET k == CHOOSE i \in 1..Len(s) : s[i] = sep /\ \A j \in 1..(i-1) : s[j] # sep
         IN  <<SubSeq(s, 1, k-1)>> \o Split(SubSeq(s, k+1, Len(s)), sep)

RECURSIVE Strip(_)
Strip(s) ==
    IF s = <<>> THEN s
    ELSE IF s[1] = " " THEN Strip(Tail(s))
    ELSE IF s[Len(s)] = " " THEN Strip(SubSeq(s, 1, Len(s)-1))
    ELSE s

StartsWith(s, p) == Len(p) <= Len(s) /\ SubSeq(s, 1, Len(p)) = p
EndsWith(s, p) == Len(p) <= Len(s) /\ SubSeq(s, Len(s) - Len(p) + 1, Len(s)) = p

InSeq(x, s) == \E i \in 1..Len(s) : s[i] = x

\* p in s
Contains(s, p) == \E i \in 1..(Len(s) - Len(p) + 1) : SubSeq(s, i, i + Len(p) - 1) = p

\* s.replace(p, ""), for a non-empty p
RECURSIVE Remove(_, _)
Remove(s, p) ==
    IF Len(s) < Len(p) THEN s
    ELSE IF StartsWith(s, p) THEN Remove(SubSeq(s, Len(p) + 1, Len(s)), p)
    ELSE <<s[1]>> \o Remove(Tail(s), p)

UpperLetters ==
    <<"A","B","C","D","E","F","G","H","I","J","K","L","M",
      "N","O","P","Q","R","S","T","U","V","W","X","Y","Z">>
LowerLetters ==
    <<"a","b","c","d","e","f","g","h","i","j","k","l","m",
      "n","o","p","q","r","s","t","u","v","w","x","y","z">>

LowerChar(ch) ==
    IF \E i \in 1..26 : UpperLetters[i] = ch
    THEN LowerLetters[CHOOSE i \in 1..26 : UpperLetters[i] = ch]
    ELSE ch
Lower(s) == [i \in 1..Len(s) |-> LowerChar(s[i])]

Get(f, k, default) == IF k \in DOMAIN f THEN f[k] ELSE default
Put(f, k, v) == [x \in DOMAIN f \cup {k} |-> IF x = k THEN v ELSE f[x]]

Ok(v) == [raise |-> FALSE, value |-> v]
Raise(exc, msg) == [raise |-> TRUE, exc |-> exc, msg |-> msg]

----------------------------------------------------------------------------
(* Configuration and what GitHub may answer *)

RepoSpecs ==
    { <<"*">>,
      <<"r", "2">>,
      <<"r", "2", ",", " ", "r", "1">> }

\* GET /users/{owner}/repos: the names on the first page of the answer
RepoListings == { <<"r1">>, <<"r2">> }

RepoArgs == {None, "r1", "r2", "r3"}
DataRepoArgs == {None, "r2"}

\* bodies that raw.githubusercontent.com may serve for back-links.json
ObjectBodies == {"posts", "pages"}
Bodies == ObjectBodies \cup {"nonobject"}

Doc(repo, body) == [origin |-> repo, body |-> body]

BranchFailures == {"http_404", "timeout"}
FetchFailures == {"http_error", "transport", "malformed_json"}

----------------------------------------------------------------------------
(* Repository registry *)

\* variant of ParseRepoList that adds the default repository when the list omits it
ParseRepoListWithDefault(spec) ==
    LET parts == Split(spec, ",")
        names == [i \in 1..Len(parts) |-> Join(Strip(parts[i]))]
    IN  IF InSeq(DEFAULT_REPO, names) THEN names ELSE Append(names, DEFAULT_REPO)

\* lines 156-158: [repo.strip() for repo in GITHUB_REPOS.split(",")]
ParseRepoList(spec) ==
    LET parts == Split(spec, ",")
    IN  [i \in 1..Len(parts) |-> Join(Strip(parts[i]))]

IsWildcard(spec) == spec = <<"*">>

\* _available_repos is None (unresolved) or a list
Unresolved == [resolved |-> FALSE]
Resolved(list) == [resolved |-> TRUE, list |-> list]

\* variant of validate_repo whose error names only the first registry entry
validate_repo_first_name(repo) ==
    IF repo = None THEN Ok(DEFAULT_REPO)
    ELSE IF ~_available_repos.resolved THEN Ok(repo)
    ELSE IF ~InSeq(repo, _available_repos.list)
         THEN Raise("BlogError", [kind |-> "repo_not_configured", repo |-> repo,
                                  available_list |-> SubSeq(_available_repos.list, 1, 1)])
    ELSE Ok(repo)

\* variant of validate_repo that never consults the registry
validate_repo_unchecked(repo) == IF repo = None THEN Ok(DEFAULT_REPO) ELSE Ok(repo)

\* lines 161-189
validate_repo(repo) ==
    IF repo = None THEN Ok(DEFAULT_REPO)
    ELSE IF ~_available_repos.resolved THEN Ok(repo)
    ELSE IF ~InSeq(repo, _available_repos.list)
         THEN Raise("BlogError", [kind |-> "repo_not_configured", repo |-> repo,
                                  available_list |-> _available_repos.list])
    ELSE Ok(repo)

----------------------------------------------------------------------------
(* Task-local state *)

NoCall == [tool |-> "none"]
NoFrame == [stage |-> "none"]
NoLast == [call |-> NoCall, ret |-> [kind |-> "none"], event |-> [at |-> "none"]]

Done(r) == [k |-> "done", ret |-> r]
Await(p, f, ctx) == [k |-> "await", pc |-> p, frame |-> [ctx |-> ctx] @@ f]

\* what a finished call hands to its caller
Value(v) == [kind |-> "value", value |-> v]
Raised(e) == [kind |-> "raise", exc |-> e.exc, msg |-> e.msg]
Text(t, detail) == [kind |-> "text", text |-> t, detail |-> detail]
Json(obj) == [kind |-> "json", json |-> obj]

\* the shared maps as one value, so that code running after a write reads the write
Shared(caches, stamps, branches, time) ==
    [caches |-> caches, stamps |-> stamps, branches |-> branches, time |-> time]

----------------------------------------------------------------------------
(* get_blog_data, lines 263-338 *)

IsFresh(repo, S, current_time) ==
    /\ repo \in DOMAIN S.caches
    /\ (current_time - Get(S.stamps, repo, 0)) < CACHE_DURATION

\* variant that looks the default branch up on every refresh
get_blog_data_enter_lookup_always(repoArg, S, current_time, ctx) ==
    LET v == validate_repo(repoArg)
    IN  IF v.raise THEN [k |-> "raise", exc |-> v]
        ELSE IF IsFresh(v.value, S, current_time)
             THEN [k |-> "return", value |-> S.caches[v.value]]
        ELSE Await("get_default_branch",
                   [fn |-> "get_blog_data", repo |-> v.value,
                    current_time |-> current_time], ctx)

\* lines 273-288: up to the first await.  ctx is carried in the frame and names
\* the caller to resume.
get_blog_data_enter(repoArg, S, current_time, ctx) ==
    LET v == validate_repo(repoArg)
    IN  IF v.raise THEN [k |-> "raise", exc |-> v]
        ELSE IF IsFresh(v.value, S, current_time)
             THEN [k |-> "return", value |-> S.caches[v.value]]
        ELSE IF v.value \in DOMAIN S.branches
             THEN Await("fetch_backlinks",
                        [fn |-> "get_blog_data", repo |-> v.value,
                         current_time |-> current_time,
                         default_branch |-> S.branches[v.value]], ctx)
        ELSE Await("get_default_branch",
                   [fn |-> "get_blog_data", repo |-> v.value,
                    current_time |-> current_time], ctx)

\* variant of the handlers that serves whatever document is stored
get_blog_data_except_any(repo, S, exc) ==
    IF DOMAIN S.caches # {}
    THEN Ok(S.caches[CHOOSE r \in DOMAIN S.caches : r # repo \/ DOMAIN S.caches = {repo}])
    ELSE exc

\* variant of the handlers that propagates the error even when a document is stored
get_blog_data_reraise(repo, S, exc) == exc

\* lines 295-338: every handler serves the stored document when there is one
get_blog_data_except(repo, S, exc) ==
    IF repo \in DOMAIN S.caches THEN Ok(S.caches[repo]) ELSE exc

----------------------------------------------------------------------------
(* The back-links documents of the model *)

BLOG_URL == <<"h","t","t","p","s",":","/","/","i","d","v","o","r","k",".","i","n">>

\* a url_info item; last_modified is <<>> when absent, else <<n>> for the n-th
\* timestamp in ISO order
Entry(url, markdown_path, title, last_modified, redirect_url) ==
    [url |-> url, markdown_path |-> markdown_path, title |-> title,
     description |-> <<>>, last_modified |-> last_modified,
     redirect_url |-> redirect_url]

Described(e, description) == [e EXCEPT !.description = description]

Path42 == <<"/","4","2">>
Md42 == <<"_","d","/","4","2",".","m","d">>

\* url_info in document order, and the top-level redirects
BackLinks(body) ==
    CASE body = "posts" ->
        [url_info |-> << Entry(Path42, Md42, <<"L","i","f","e">>, <<2>>, <<>>),
                         Entry(<<"/","a","b">>, <<"p","g","/","a","b",".","m","d">>,
                               <<"a","b">>, <<3>>, <<>>),
                         Entry(<<"/","t">>, <<"t","d","/","t",".","m","d">>,
                               <<"t","i","l">>, <<>>, <<>>) >>,
         redirects |-> << <<<<"/","f","t">>, Path42>> >>]
      [] body = "shadow" ->
        \* an older post whose file name ends like 42.md comes first
        [url_info |-> << Entry(<<"/","1","4","2">>, <<"_","d","/","1","4","2",".","m","d">>,
                               <<"O","l","d">>, <<1>>, <<>>),
                         Entry(Path42, Md42, <<"L","i","f","e">>, <<2>>, <<>>) >>,
         redirects |-> <<>>]
      [] body = "legacy" ->
        [url_info |-> << Entry(<<"/","a","b">>, <<"p","g","/","a","b",".","m","d">>,
                               <<"L","i","f","e">>, <<4>>, <<>>),
                         Entry(<<"/","e">>, <<>>, <<"T","e","a">>, <<5>>, <<>>),
                         Described(Entry(<<"/","p">>, <<"_","p","o","s","t","s","/","p",".","m","d">>,
                                         <<"T","e","a">>, <<3>>, <<"/","o","l","d">>),
                                   <<"a"," ","L","i","f","e">>),
                         Entry(<<"/","q">>, <<"_","d","/","q",".","m","d">>,
                               <<"L","I","F","T">>, <<3>>, <<>>),
                         Entry(<<"/","t">>, <<"t","d","/","t",".","m","d">>,
                               <<"t","i","l">>, <<>>, <<>>),
                         Entry(Path42, Md42, <<"L","i","f","e">>, <<2>>, <<>>),
                         Entry(<<"/","x">>, <<"p","g","/","x",".","m","d">>,
                               <<"X">>, <<>>, <<"g","o">>) >>,
         redirects |-> << <<<<"/","a","b">>, Path42>>,
                          <<<<"/","e">>, <<"/","p">>>>,
                          <<<<"/","f","t">>, Path42>>,
                          <<Path42, <<"/","p">>>>,
                          <<<<"/","n","p">>, <<"/","a","b">>>>,
                          <<<<"/","r",".","m","d">>, Path42>>,
                          <<<<"/","h","t","t","p","x">>, Path42>> >>]
      [] OTHER ->
        [url_info |-> << Entry(<<"/","a","b">>, <<"p","g","/","a","b",".","m","d">>,
                               <<"a","b">>, <<3>>, <<>>) >>,
         redirects |-> <<>>]

\* variant of the filter that takes every directory
IsAnyPath(markdown_path) == TRUE

\* lines 365-367
IsContentPath(markdown_path) ==
    \/ StartsWith(markdown_path, <<"_","d","/">>)
    \/ StartsWith(markdown_path, <<"_","p","o","s","t","s","/">>)
    \/ StartsWith(markdown_path, <<"t","d","/">>)

RECURSIVE LastSegment(_)
LastSegment(path) ==
    IF \A i \in 1..Len(path) : path[i] # "/" THEN path
    ELSE LastSegment(Tail(path))

\* lines 358-377: one descriptor per content-directory entry, in document order
BlogFilesOf(doc, repo_name, branch) ==
    LET info == BackLinks(doc.body).url_info
        keep == SelectSeq(info, LAMBDA e : e.markdown_path # <<>> /\ IsContentPath(e.markdown_path))
    IN  [i \in 1..Len(keep) |->
            [name |-> LastSegment(keep[i].markdown_path),
             path |-> keep[i].markdown_path,
             download_url |-> [repo |-> repo_name, branch |-> branch,
                               path |-> keep[i].markdown_path],
             html_url |-> BLOG_URL \o keep[i].url]]

----------------------------------------------------------------------------
(* Post listings: all_blog_posts, recent_blog_posts, blog_search *)

IntArg(n) == [int |-> TRUE, n |-> n]
NotAnInt == [int |-> FALSE]

Min(a, b) == IF a < b THEN a ELSE b
Max(a, b) == IF a > b THEN a ELSE b

\* variant of the clamp without its upper end
ClampBelow(limit, hi, fallback) ==
    IF limit.int THEN Max(limit.n, 1) ELSE fallback

\* lines 723-728 and 795-800: int(limit), clamped, or the fallback
ClampLimit(limit, hi, fallback) ==
    IF limit.int THEN Min(Max(limit.n, 1), hi) ELSE fallback

Take(s, n) == SubSeq(s, 1, Min(n, Len(s)))

\* lines 576-585
Project(e) ==
    [title |-> e.title, url |-> BLOG_URL \o e.url, description |-> e.description,
     last_modified |-> e.last_modified, markdown_path |-> e.markdown_path,
     redirect_url |-> e.redirect_url]

\* variant of the key that ranks a missing timestamp above every timestamp
sort_key_missing_first(post) ==
    IF post.last_modified # <<>> THEN post.last_modified[1] ELSE 9

\* lines 592-596: posts without a timestamp get the lowest key.  Timestamps
\* are numbered in their string order; "0000-00-00T00:00:00" is below every
\* ISO-8601 timestamp (whose month is at least 01) and has number 0.
sort_key(post) == IF post.last_modified # <<>> THEN post.last_modified[1] ELSE 0

\* list.sort(key=sort_key, reverse=True): descending and stable
RECURSIVE SortRecent(_)
SortRecent(posts) ==
    IF posts = <<>> THEN <<>>
    ELSE LET rest == SortRecent(SubSeq(posts, 1, Len(posts) - 1))
             p == posts[Len(posts)]
             before == SelectSeq(rest, LAMBDA q : sort_key(q) >= sort_key(p))
             after == SelectSeq(rest, LAMBDA q : sort_key(q) < sort_key(p))
         IN  before \o <<p>> \o after

\* variant of the candidates that takes every url_info item
AllEntries(doc) == BackLinks(doc.body).url_info

ContentEntries(doc) ==
    SelectSeq(BackLinks(doc.body).url_info,
              LAMBDA e : e.markdown_path # <<>> /\ IsContentPath(e.markdown_path))

NoPosts == [kind |-> "json", json |-> [error |-> "No blog posts found."]]

\* lines 557-605
all_blog_posts_body(doc) ==
    LET found == ContentEntries(doc)
        posts == SortRecent([i \in 1..Len(found) |-> Project(found[i])])
    IN  IF BackLinks(doc.body).url_info = <<>> \/ posts = <<>> THEN NoPosts
        ELSE [kind |-> "json", json |-> [count |-> Len(posts), posts |-> posts]]

\* variant that truncates the candidates before sorting them
recent_blog_posts_cut_first(doc, limit) ==
    LET found == ContentEntries(doc)
        n == ClampLimit(limit, 50, 20)
        recent == SortRecent(Take([i \in 1..Len(found) |-> Project(found[i])], n))
    IN  IF BackLinks(doc.body).url_info = <<>> \/ found = <<>> THEN NoPosts
        ELSE [kind |-> "json",
              json |-> [count |-> Len(recent), limit |-> n, posts |-> recent]]

\* lines 804-856
recent_blog_posts_body(doc, limit) ==
    LET found == ContentEntries(doc)
        posts == SortRecent([i \in 1..Len(found) |-> Project(found[i])])
        n == ClampLimit(limit, 50, 20)
        recent == Take(posts, n)
    IN  IF BackLinks(doc.body).url_info = <<>> \/ posts = <<>> THEN NoPosts
        ELSE [kind |-> "json",
              json |-> [count |-> Len(recent), limit |-> n, posts |-> recent]]

\* variant of the scan without the break at the limit-th match
blog_search_no_break(doc, query, limit) ==
    LET q == Take(Lower(Strip(query)), 100)
        n == ClampLimit(limit, 20, 5)
        found == SelectSeq(ContentEntries(doc),
                     LAMBDA e : Contains(Lower(e.title), q) \/ Contains(Lower(e.description), q))
        matching == [i \in 1..Len(found) |-> Project(found[i])]
    IN  IF BackLinks(doc.body).url_info = <<>> THEN NoPosts
        ELSE IF matching = <<>>
             THEN [kind |-> "json", json |-> [error |-> "No blog posts found matching", query |-> q]]
        ELSE [kind |-> "json",
              json |-> [query |-> q, count |-> Len(matching), limit |-> n, posts |-> matching]]

\* lines 731-785
blog_search_body(doc, query, limit) ==
    LET q == Take(Lower(Strip(query)), 100)
        n == ClampLimit(limit, 20, 5)
        found == SelectSeq(ContentEntries(doc),
                     LAMBDA e : Contains(Lower(e.title), q) \/ Contains(Lower(e.description), q))
        matching == Take([i \in 1..Len(found) |-> Project(found[i])], n)
    IN  IF BackLinks(doc.body).url_info = <<>> THEN NoPosts
        ELSE IF matching = <<>>
             THEN [kind |-> "json", json |-> [error |-> "No blog posts found matching", query |-> q]]
        ELSE [kind |-> "json",
              json |-> [query |-> q, count |-> Len(matching), limit |-> n, posts |-> matching]]

PostsTool(c, doc) ==
    CASE c.tool = "all_blog_posts" -> all_blog_posts_body(doc)
      [] c.tool = "recent_blog_posts" -> recent_blog_posts_body(doc, c.limit)
      [] c.tool = "blog_search" -> blog_search_body(doc, c.query, c.limit)

----------------------------------------------------------------------------
(* read_blog_post: from the url to the posts to try, lines 624-687 *)

BlogDomain == Remove(Remove(BLOG_URL, <<"h","t","t","p","s",":","/","/">>),
                     <<"h","t","t","p",":","/","/">>)

RECURSIVE LStripSlash(_)
LStripSlash(s) == IF s # <<>> /\ s[1] = "/" THEN LStripSlash(Tail(s)) ELSE s

MarkdownMatch(markdown_path, url) ==
    /\ markdown_path # <<>>
    /\ \/ markdown_path = url
       \/ EndsWith(markdown_path, url)
       \/ EndsWith(url, markdown_path)
       \/ LastSegment(url) = LastSegment(markdown_path)

\* lines 625-654: the path to look up, or the text returned at once
ResolvePath(url, url_info) ==
    IF StartsWith(url, <<"h","t","t","p">>)
    THEN IF Contains(url, BlogDomain)
         THEN LET path == Remove(Remove(url, <<"h","t","t","p","s",":","/","/">> \o BlogDomain),
                                 <<"h","t","t","p",":","/","/">> \o BlogDomain)
              IN  [k |-> "path", path |-> IF path = <<>> THEN <<"/">> ELSE path]
         ELSE [k |-> "return", text |-> "Error: URL must be from ", detail |-> BlogDomain]
    ELSE IF Contains(url, <<".","m","d">>)
    THEN LET hits == SelectSeq(url_info, LAMBDA e : MarkdownMatch(e.markdown_path, url))
         IN  IF hits # <<>> THEN [k |-> "path", path |-> hits[1].url]
             ELSE [k |-> "return", text |-> "Blog post not found for markdown path: ",
                   detail |-> url]
    ELSE [k |-> "path", path |-> IF StartsWith(url, <<"/">>) THEN url ELSE <<"/">> \o url]

Lookup(url_info, path) == SelectSeq(url_info, LAMBDA e : e.url = path)
RedirectsOf(redirects, path) == SelectSeq(redirects, LAMBDA r : r[1] = path)

\* lines 657-687: the markdown paths handed to get_blog_post_by_markdown_path, in order
Attempts(bl, path) ==
    LET direct == SelectSeq(Lookup(bl.url_info, path), LAMBDA e : e.markdown_path # <<>>)
        targets == IF RedirectsOf(bl.redirects, path) = <<>> THEN <<>>
                   ELSE SelectSeq(Lookup(bl.url_info, RedirectsOf(bl.redirects, path)[1][2]),
                                  LAMBDA e : e.markdown_path # <<>>)
        legacy == SelectSeq(bl.url_info,
                      LAMBDA e : /\ e.redirect_url # <<>>
                                 /\ (e.redirect_url = path \/ e.redirect_url = LStripSlash(path))
                                 /\ e.markdown_path # <<>>)
        \* the prefix handed to format_blog_post: via is the path named in it
        Try(es, label, via) == [i \in 1..Len(es) |-> [markdown_path |-> es[i].markdown_path,
                                                      label |-> label, via |-> via]]
    IN  Try(direct, "Blog Post", <<>>)
          \o Try(targets, "Blog Post (via redirect from {path})", path)
          \o Try(legacy, "Blog Post (via redirect from {path})", path)

----------------------------------------------------------------------------
(* Resuming the caller of get_blog_data and of get_blog_files *)

AttributeError == Raise("AttributeError", [kind |-> "object_has_no_attribute_get"])
BlogFilesError == Raise("BlogError", [kind |-> "failed_to_get_blog_files"])

\* variant of the tools without their except clauses
ToolLetEscape(c, e) == Raised(e)

\* the outermost except clauses of each tool; the helper functions have none
ToolCatch(c, e) ==
    CASE c.tool = "random_blog" ->
            Text("Error getting random blog post: ", e.msg)
      [] c.tool = "random_blog_url" ->
            Text("Error getting random blog URL: ", e.msg)
      [] c.tool = "read_blog_post" ->
            IF e.exc = "BlogError" THEN Text("Error: ", e.msg)
            ELSE Text("An unexpected error occurred while reading the blog post: ", e.msg)
      [] c.tool = "all_blog_posts" ->
            Json([error |-> "Error getting all blog posts: ", cause |-> e.msg])
      [] c.tool = "blog_search" ->
            Json([error |-> "Error searching blog posts: ", cause |-> e.msg])
      [] c.tool = "recent_blog_posts" ->
            Json([error |-> "Error getting recent blog posts: ", cause |-> e.msg])
      [] c.tool = "list_repos" ->
            Json([error |-> IF e.exc = "BlogError" THEN ""
                            ELSE "Unexpected error listing repositories: ",
                  cause |-> e.msg])
      [] c.tool = "get_recent_changes" ->
            Text("Error getting recent changes: ", e.msg)
      [] OTHER -> Raised(e)

RECURSIVE CallBlogData(_, _, _)

\* random.choice(blog_files), with the draw as an input of the call
Choice(files, rnd) == files[(rnd % Len(files)) + 1]

ParseMarkdown(file, ctx) ==
    Await("fetch_markdown", [fn |-> "parse_markdown_content", file |-> file], ctx)

\* read_blog_post tries the next markdown path, lines 661, 672 and 685
TryAttempts(c, ctx, S) ==
    IF ctx.i > Len(ctx.attempts)
    THEN Done(Text("Blog post not found for: ", c.url))
    ELSE CallBlogData(c, ctx, S)

\* what the caller of get_blog_files does with its result (a list or an exception)
AfterBlogFiles(c, ctx, res, S) ==
    IF res.raise THEN Done(ToolCatch(c, res))
    ELSE LET files == res.value
         IN  CASE c.tool = "get_blog_files" -> Done(Value(files))
               [] c.tool = "random_blog_url" ->
                    IF files = <<>> THEN Done(Text("No blog posts found.", <<>>))
                    ELSE Done(Text("", Choice(files, c.rnd).html_url))
               [] c.tool = "random_blog" ->
                    IF files = <<>> THEN Done(Text("No blog posts found.", <<>>))
                    ELSE IF c.include_content
                         THEN ParseMarkdown(Choice(files, c.rnd), [stage |-> "random_blog"])
                    ELSE Done(Text("Random blog post URL: ", Choice(files, c.rnd).html_url))
               [] c.tool = "read_blog_post" ->
                    \* get_blog_post_by_markdown_path, lines 392-396
                    LET want == ctx.attempts[ctx.i].markdown_path
                        hits == SelectSeq(files, LAMBDA f : f.path = want)
                    IN  IF hits # <<>> THEN ParseMarkdown(hits[1], ctx)
                        ELSE TryAttempts(c, [ctx EXCEPT !.i = @ + 1], S)

\* lines 352-380, from the get_default_branch call on
get_blog_files_branch(c, ctx, doc, S) ==
    LET repo_name == IF c.repo # None THEN c.repo ELSE DEFAULT_REPO
    IN  IF repo_name \in DOMAIN S.branches
        THEN AfterBlogFiles(c, ctx, Ok(BlogFilesOf(doc, repo_name, S.branches[repo_name])), S)
        ELSE Await("get_default_branch",
                   [fn |-> "get_blog_files", repo |-> repo_name, doc |-> doc], ctx)

\* lines 349-352 and 382-387: get_blog_files once get_blog_data has answered
get_blog_files_data(c, ctx, res, S) ==
    IF res.raise THEN AfterBlogFiles(c, ctx, res, S)
    ELSE IF res.value.body = "nonobject" THEN AfterBlogFiles(c, ctx, BlogFilesError, S)
    ELSE get_blog_files_branch(c, ctx, res.value, S)

\* lines 620-663: read_blog_post once its own get_blog_data has answered
read_blog_post_data(c, doc, S) ==
    LET bl == BackLinks(doc.body)
        r == ResolvePath(Strip(c.url), bl.url_info)
    IN  IF r.k = "return" THEN Done(Text(r.text, r.detail))
        ELSE TryAttempts(c, [stage |-> "get_blog_files", attempts |-> Attempts(bl, r.path),
                             i |-> 1], S)

\* the code that awaited get_blog_data(repo) continues with res
AfterBlogData(c, ctx, res, S) ==
    IF ctx.stage = "get_blog_data"
    THEN Done(IF res.raise THEN Raised(res) ELSE Value(res.value))
    ELSE IF ctx.stage = "get_blog_files" THEN get_blog_files_data(c, ctx, res, S)
    ELSE IF res.raise THEN Done(ToolCatch(c, res))
    ELSE IF res.value.body = "nonobject" THEN Done(ToolCatch(c, AttributeError))
    ELSE IF ctx.stage = "posts" THEN Done(PostsTool(c, res.value))
    ELSE read_blog_post_data(c, res.value, S)

\* a call of get_blog_data(c.repo) made at S.time on behalf of c
CallBlogData(c, ctx, S) ==
    LET e == get_blog_data_enter(c.repo, S, S.time, ctx)
    IN  IF e.k = "await" THEN e
        ELSE AfterBlogData(c, ctx, IF e.k = "raise" THEN e.exc ELSE Ok(e.value), S)

----------------------------------------------------------------------------
(* parse_markdown_content, lines 412-471.  A Markdown source is a sequence  *)
(* of characters, "\n" between its lines.                                   *)

Whitespace == {" ", "\n", "\t"}

\* str.strip(): whitespace off both ends
RECURSIVE StripSpace(_)
StripSpace(s) ==
    IF s = <<>> THEN s
    ELSE IF s[1] \in Whitespace THEN StripSpace(Tail(s))
    ELSE IF s[Len(s)] \in Whitespace THEN StripSpace(SubSeq(s, 1, Len(s)-1))
    ELSE s

\* str.strip(ch): every leading and trailing ch
RECURSIVE StripChar(_, _)
StripChar(s, ch) ==
    IF s = <<>> THEN s
    ELSE IF s[1] = ch THEN StripChar(Tail(s), ch)
    ELSE IF s[Len(s)] = ch THEN StripChar(SubSeq(s, 1, Len(s)-1), ch)
    ELSE s

\* str.replace(a, b) for single characters
ReplaceChar(s, a, b) == [i \in 1..Len(s) |-> IF s[i] = a THEN b ELSE s[i]]

IsLetter(ch) == \E i \in 1..26 : UpperLetters[i] = ch \/ LowerLetters[i] = ch
UpperChar(ch) ==
    IF \E i \in 1..26 : LowerLetters[i] = ch
    THEN UpperLetters[CHOOSE i \in 1..26 : LowerLetters[i] = ch]
    ELSE ch

\* str.title(): a letter that follows no letter is upper-cased, the others lower-cased
TitleCase(s) ==
    [i \in 1..Len(s) |-> IF i = 1 \/ ~IsLetter(s[i-1]) THEN UpperChar(s[i]) ELSE LowerChar(s[i])]

Untitled == <<"U","n","t","i","t","l","e","d">>
TitleKey == <<"t","i","t","l","e",":">>
DateKey == <<"d","a","t","e",":">>

\* '"a"' and "'a'" lose their quotes: .strip('"').strip("'")
Unquote(s) == StripChar(StripChar(s, "\""), "'")

\* lines 424-434: the first of the first ten lines that is a heading or a title: line
TitleOf(lines) ==
    LET head == [i \in 1..Min(10, Len(lines)) |-> StripSpace(lines[i])]
        hits == {i \in 1..Len(head) : StartsWith(head[i], <<"#"," ">>) \/ StartsWith(head[i], TitleKey)}
    IN  IF hits = {} THEN Untitled
        ELSE LET line == head[CHOOSE i \in hits : \A j \in hits : i <= j]
             IN  IF StartsWith(line, <<"#"," ">>)
                 THEN StripSpace(SubSeq(line, 3, Len(line)))
                 ELSE Unquote(StripSpace(Remove(line, TitleKey)))

\* lines 437-441: the first date: line of the first twenty, or None (<<>>)
DateOf(lines) ==
    LET head == [i \in 1..Min(20, Len(lines)) |-> StripSpace(lines[i])]
        hits == {i \in 1..Len(head) : StartsWith(head[i], DateKey)}
    IN  IF hits = {} THEN <<>>
        ELSE << Unquote(StripSpace(Remove(head[CHOOSE i \in hits : \A j \in hits : i <= j],
                                         DateKey))) >>

\* lines 444-445
TitleFromName(name) ==
    TitleCase(ReplaceChar(ReplaceChar(Remove(name, <<".","m","d">>), "-", " "), "_", " "))

\* line 448, re.sub(r"\n\s*\n", "\n\n", content): from the leftmost line end
\* that whitespace alone separates from a later line end, the longest such
\* stretch becomes one empty line; then the same for what follows it
RECURSIVE SquashBlank(_)
SquashBlank(s) ==
    LET EndsFrom(i) == {j \in (i+1)..Len(s) :
                          s[j] = "\n" /\ \A k \in (i+1)..(j-1) : s[k] \in Whitespace}
        starts == {i \in 1..Len(s) : s[i] = "\n" /\ EndsFrom(i) # {}}
    IN  IF starts = {} THEN s
        ELSE LET first == CHOOSE i \in starts : \A k \in starts : i <= k
                 end == CHOOSE j \in EndsFrom(first) : \A k \in EndsFrom(first) : k <= j
             IN  SubSeq(s, 1, first - 1) \o <<"\n","\n">>
                   \o SquashBlank(SubSeq(s, end + 1, Len(s)))

\* line 451
Excerpt(content) ==
    IF Len(content) > 200 THEN SubSeq(content, 1, 200) \o <<".",".",".">> ELSE content

ErrorLoadingPost ==
    <<"E","r","r","o","r"," ","l","o","a","d","i","n","g"," ","p","o","s","t">>

KeyError(key) == [exc |-> "KeyError", key |-> key]

\* variant of the except clause that lets a missing descriptor field escape
FailedPostStrict(file, cause) ==
    IF "html_url" \in DOMAIN file /\ "name" \in DOMAIN file
    THEN [title |-> ErrorLoadingPost, url |-> file.html_url,
          content |-> [text |-> "Error: ", cause |-> cause],
          excerpt |-> [text |-> "Error: ", cause |-> cause],
          date |-> <<>>, filename |-> file.name]
    ELSE Raise("KeyError", KeyError("html_url"))

\* lines 462-471: the record returned when anything above raised
FailedPost(file, cause) ==
    [title |-> ErrorLoadingPost,
     url |-> Get(file, "html_url", <<>>),
     content |-> [text |-> "Error: ", cause |-> cause],
     excerpt |-> [text |-> "Error: ", cause |-> cause],
     date |-> <<>>,
     filename |-> Get(file, "name", <<"u","n","k","n","o","w","n">>)]

\* lines 415-460: the record built from the fetched text; a descriptor field
\* that is read and missing raises KeyError, in the order the code reads them
ParsedPost(file, text) ==
    LET lines == Split(text, "\n")
        found == TitleOf(lines)
        content == StripSpace(SquashBlank(text))
    IN  IF found = Untitled /\ "name" \notin DOMAIN file THEN FailedPost(file, KeyError("name"))
        ELSE IF "html_url" \notin DOMAIN file THEN FailedPost(file, KeyError("html_url"))
        ELSE IF "name" \notin DOMAIN file THEN FailedPost(file, KeyError("name"))
        ELSE [title |-> Take(IF found = Untitled THEN TitleFromName(file.name) ELSE found, 200),
              url |-> file.html_url,
              content |-> content,
              excerpt |-> Excerpt(content),
              date |-> DateOf(lines),
              filename |-> file.name]

\* lines 412-471: the post record parse_markdown_content returns once fetch_url
\* has answered (ok) or raised (answer is the cause)
PostOf(file, ok, answer) ==
    IF ok THEN ParsedPost(file, answer) ELSE FailedPost(file, answer)

\* lines 544 and 663-687: format_blog_post under the caller's label
AfterParse(c, ctx, post) ==
    IF c.tool = "parse_markdown_content"
    THEN Done(IF "raise" \in DOMAIN post THEN Raised(post) ELSE Value(post))
    ELSE IF c.tool = "random_blog" THEN Done(Text("Random Blog Post", [post |-> post, via |-> <<>>]))
    ELSE Done(Text(ctx.attempts[ctx.i].label,
                   [post |-> post, via |-> ctx.attempts[ctx.i].via]))

----------------------------------------------------------------------------
(* get_recent_changes, lines 881-1054 *)

EndsWithSlash(path) == EndsWith(path, <<"/">>)
EndsWithMd(path) == EndsWith(path, <<".","m","d">>)

\* variant of the checks that looks at the path before the numbers
get_recent_changes_check_path_first(path, days, commits, include_diff) ==
    IF include_diff /\ path # <<>> /\ path[1] # <<>> /\ EndsWithSlash(path[1])
    THEN "Error: When include_diff is true, path must be a specific file, not a directory."
    ELSE IF include_diff /\ path # <<>> /\ path[1] # <<>> /\ ~EndsWithMd(path[1])
    THEN "Error: When include_diff is true, path must be a markdown file (ending in .md)."
    ELSE IF days # <<>> /\ commits # <<>>
    THEN "Error: Cannot specify both 'days' and 'commits' parameters. Choose one."
    ELSE IF days # <<>> /\ days[1] <= 0
    THEN "Error: 'days' must be a positive number."
    ELSE IF commits # <<>> /\ commits[1] <= 0
    THEN "Error: 'commits' must be a positive number."
    ELSE "ok"

\* lines 882-897: the text of the first failing check, or "ok".  An optional
\* argument is <<>> when absent and <<v>> when given; an empty path is falsy.
get_recent_changes_check(path, days, commits, include_diff) ==
    IF days # <<>> /\ commits # <<>>
    THEN "Error: Cannot specify both 'days' and 'commits' parameters. Choose one."
    ELSE IF days # <<>> /\ days[1] <= 0
    THEN "Error: 'days' must be a positive number."
    ELSE IF commits # <<>> /\ commits[1] <= 0
    THEN "Error: 'commits' must be a positive number."
    ELSE IF include_diff /\ path # <<>> /\ path[1] # <<>> /\ EndsWithSlash(path[1])
    THEN "Error: When include_diff is true, path must be a specific file, not a directory."
    ELSE IF include_diff /\ path # <<>> /\ path[1] # <<>> /\ ~EndsWithMd(path[1])
    THEN "Error: When include_diff is true, path must be a markdown file (ending in .md)."
    ELSE "ok"

\* variant of the request that asks for as many commits as the caller named
PerPageUncapped(days, commits) ==
    LET given == IF days = <<>> /\ commits = <<>> THEN <<10>> ELSE commits
    IN  IF given = <<>> THEN 100 ELSE given[1]

\* lines 900-905 and 913: per_page of the commit listing
PerPage(days, commits) ==
    LET given == IF days = <<>> /\ commits = <<>> THEN <<10>> ELSE commits
    IN  IF given = <<>> THEN 100
        ELSE IF given[1] > 100 THEN 100 ELSE given[1]

\* variant of the admission without a semaphore
AdmitAll(waiting, open) == waiting

\* lines 946-949: how many waiting fetches the semaphore lets start
Admit(waiting, open) == Min(waiting, SEMAPHORE_PERMITS - Cardinality(open))

\* variant of the report in which one failed fetch fails the whole gather
RenderAllOrNothing(f) ==
    LET idx == [i \in 1..f.n |-> i]
        detailed == SelectSeq(idx, LAMBDA i : f.results[i] = "ok")
    IN  IF Len(detailed) < f.n THEN Text("Error: Failed to fetch commit details.", <<>>)
        ELSE Text(IF f.days # <<>> THEN "Recent changes (last N days):"
                  ELSE "Recent changes (last K commits):",
                  [k |-> Len(detailed), commits |-> detailed])

\* lines 965-1043: the report over the gathered results, in listing order
Render(f) ==
    LET idx == [i \in 1..f.n |-> i]
        detailed == SelectSeq(idx, LAMBDA i : f.results[i] = "ok")
    IN  IF detailed = <<>> THEN Text("Error: Failed to fetch commit details.", <<>>)
        ELSE Text(IF f.days # <<>> THEN "Recent changes (last N days):"
                  ELSE "Recent changes (last K commits):",
                  [k |-> Len(detailed), commits |-> detailed])

\* lines 1045-1054
ListingError(c, kind) ==
    CASE kind = "http_404" -> Text("Error: Repository or path not found. Path: ", c.path)
      [] kind = "http_403" ->
            Text("Error: GitHub API rate limit exceeded. Please try again later.", <<>>)
      [] kind = "http_500" -> Text("Error: GitHub API returned status ", 500)
      [] OTHER -> ToolCatch(c, Raise("Exception", [kind |-> kind]))

----------------------------------------------------------------------------
(* Steps *)

Here == Shared(_repo_caches, _repo_cache_timestamps, _repo_default_branches, now)

Idle(t) == pc[t] = "idle"

\* what ended a call: the call itself, or the response that resumed it last
AtCall == [at |-> "call"]
Response(p, ok, answer) == [at |-> p, ok |-> ok, answer |-> answer]

\* the task moves to its next suspension point (one more request is open), or
\* finishes with a result
Apply(t, c, out, ev) ==
    IF out.k = "done"
    THEN /\ pc' = [pc EXCEPT ![t] = "done"]
         /\ call' = [call EXCEPT ![t] = c]
         /\ frame' = [frame EXCEPT ![t] = NoFrame]
         /\ last' = [call |-> c, ret |-> out.ret, event |-> ev]
         /\ UNCHANGED httpCount
    ELSE /\ pc' = [pc EXCEPT ![t] = out.pc]
         /\ call' = [call EXCEPT ![t] = c]
         /\ frame' = [frame EXCEPT ![t] = out.frame]
         /\ httpCount' = httpCount + 1
         /\ UNCHANGED last

\* the caller takes the result; httpCount counts the requests of the calls in progress
Return(t) ==
    /\ pc[t] = "done"
    /\ pc' = [pc EXCEPT ![t] = "idle"]
    /\ call' = [call EXCEPT ![t] = NoCall]
    /\ last' = NoLast
    /\ httpCount' = 0
    /\ UNCHANGED <<GITHUB_REPOS, shared, now, frame>>

InFlight == {t \in Tasks : pc[t] # "idle"}

\* the response arrives d seconds after the previous event; responses are late
\* only within MaxWait seconds of a quiet period's end
Arrive(d) ==
    /\ (now % (CACHE_DURATION - 1)) + d <= MaxWait
    /\ now' = now + d

\* a quiet period, longer than any request can stay open (30 s timeout)
Tick ==
    /\ InFlight = {}
    /\ now + (CACHE_DURATION - 1) <= MaxTime
    /\ now' = now + (CACHE_DURATION - 1)
    /\ UNCHANGED <<GITHUB_REPOS, shared, httpCount, pc, call, frame, last>>

CallValidateRepo(t, repo) ==
    /\ Idle(t)
    /\ LET v == validate_repo(repo)
       IN  Apply(t, [tool |-> "validate_repo", repo |-> repo],
                 Done(IF v.raise THEN Raised(v) ELSE Value(v.value)), AtCall)
    /\ UNCHANGED <<GITHUB_REPOS, shared, now>>

\* lines 113-158 and 482-505: get_available_repos, alone or under list_repos
ReposResult(c, list) ==
    IF c.tool = "list_repos"
    THEN Json([default_repo |-> DEFAULT_REPO, repositories |-> list, count |-> Len(list)])
    ELSE Value(list)

\* variant that resolves the wildcard again on every call
CallGetAvailableReposUncached(t, tool) ==
    /\ Idle(t)
    /\ LET c == [tool |-> tool]
       IN  IF IsWildcard(GITHUB_REPOS)
           THEN /\ Apply(t, c, Await("list_user_repos", [fn |-> "get_available_repos"],
                                     [stage |-> tool]), AtCall)
                /\ UNCHANGED _available_repos
           ELSE /\ _available_repos' = Resolved(ParseRepoList(GITHUB_REPOS))
                /\ Apply(t, c, Done(ReposResult(c, ParseRepoList(GITHUB_REPOS))), AtCall)
    /\ UNCHANGED <<GITHUB_REPOS, _repo_default_branches, _repo_caches,
                   _repo_cache_timestamps, fetchedAt, now>>

CallGetAvailableRepos(t, tool) ==
    /\ Idle(t)
    /\ LET c == [tool |-> tool]
       IN  IF _available_repos.resolved
           THEN /\ Apply(t, c, Done(ReposResult(c, _available_repos.list)), AtCall)
                /\ UNCHANGED _available_repos
           ELSE IF IsWildcard(GITHUB_REPOS)
           THEN /\ Apply(t, c, Await("list_user_repos", [fn |-> "get_available_repos"],
                                     [stage |-> tool]), AtCall)
                /\ UNCHANGED _available_repos
           ELSE /\ _available_repos' = Resolved(ParseRepoList(GITHUB_REPOS))
                /\ Apply(t, c, Done(ReposResult(c, ParseRepoList(GITHUB_REPOS))), AtCall)
    /\ UNCHANGED <<GITHUB_REPOS, _repo_default_branches, _repo_caches,
                   _repo_cache_timestamps, fetchedAt, now>>

RespondUserRepos(t, ok, answer) ==
    /\ pc[t] = "list_user_repos"
    /\ _available_repos' = IF ok THEN Resolved(answer) ELSE _available_repos
    /\ Apply(t, call[t],
             Done(IF ok THEN ReposResult(call[t], answer)
                  ELSE ToolCatch(call[t], Raise("BlogError", [kind |-> answer]))), Response("list_user_repos", ok, answer))
    /\ UNCHANGED <<GITHUB_REPOS, _repo_default_branches, _repo_caches,
                   _repo_cache_timestamps, fetchedAt, now>>

\* lines 508-529
CallBlogInfo(t, repo) ==
    /\ Idle(t)
    /\ Apply(t, [tool |-> "blog_info", repo |-> repo],
             Done(Text("Blog Information:", IF repo # None THEN repo ELSE DEFAULT_REPO)), AtCall)
    /\ UNCHANGED <<GITHUB_REPOS, shared, now>>

CallGetBlogData(t, repo) ==
    /\ Idle(t)
    /\ LET c == [tool |-> "get_blog_data", repo |-> repo]
       IN  Apply(t, c, CallBlogData(c, [stage |-> "get_blog_data"], Here), AtCall)
    /\ UNCHANGED <<GITHUB_REPOS, shared, now>>

\* get_blog_files, directly or at the start of random_blog and random_blog_url
CallBlogFilesTool(t, c) ==
    /\ Idle(t)
    /\ Apply(t, c, CallBlogData(c, [stage |-> "get_blog_files"], Here), AtCall)
    /\ UNCHANGED <<GITHUB_REPOS, shared, now>>

\* all_blog_posts, recent_blog_posts and blog_search (lines 719-720 first)
CallPostsTool(t, c) ==
    /\ Idle(t)
    /\ IF c.tool = "blog_search" /\ Strip(c.query) = <<>>
       THEN Apply(t, c, Done(Json([error |->
                "Search query is required and must be a non-empty string"])), AtCall)
       ELSE Apply(t, c, CallBlogData(c, [stage |-> "posts"], Here), AtCall)
    /\ UNCHANGED <<GITHUB_REPOS, shared, now>>

\* lines 614-620
CallReadBlogPost(t, url, repo) ==
    /\ Idle(t)
    /\ LET c == [tool |-> "read_blog_post", url |-> url, repo |-> repo]
       IN  IF Strip(url) = <<>>
           THEN Apply(t, c, Done(Text("Error: URL must be a non-empty string", <<>>)), AtCall)
           ELSE Apply(t, c, CallBlogData(c, [stage |-> "read_blog_post"], Here), AtCall)
    /\ UNCHANGED <<GITHUB_REPOS, shared, now>>

\* lines 881-934: the checks, validate_repo, and the commit listing request
CallGetRecentChanges(t, path, days, commits, include_diff, repo) ==
    /\ Idle(t)
    /\ LET c == [tool |-> "get_recent_changes", path |-> path, days |-> days,
                 commits |-> commits, include_diff |-> include_diff, repo |-> repo]
           check == get_recent_changes_check(path, days, commits, include_diff)
           v == validate_repo(repo)
       IN  IF check # "ok" THEN Apply(t, c, Done(Text(check, <<>>)), AtCall)
           ELSE IF v.raise THEN Apply(t, c, Done(ToolCatch(c, v)), AtCall)
           ELSE Apply(t, c, Await("list_commits",
                                  [fn |-> "get_recent_changes", repo |-> v.value,
                                   per_page |-> PerPage(days, commits)], [stage |-> "top"]), AtCall)
    /\ UNCHANGED <<GITHUB_REPOS, shared, now>>

\* lines 200-235: get_default_branch resumes with GitHub's answer
DefaultBranchError(kind) == Raise("BlogError", [kind |-> kind])

RespondDefaultBranch(t, ok, answer, d) ==
    /\ pc[t] = "get_default_branch"
    /\ Arrive(d)
    /\ LET f == frame[t]
           branches == IF ok THEN Put(_repo_default_branches, f.repo, answer)
                       ELSE _repo_default_branches
           S == Shared(_repo_caches, _repo_cache_timestamps, branches, now')
           out == IF f.fn = "get_blog_data"
                  THEN IF ok
                       THEN Await("fetch_backlinks",
                                  [default_branch |-> answer]
                                      @@ [x \in DOMAIN f \ {"ctx"} |-> f[x]], f.ctx)
                       ELSE AfterBlogData(call[t], f.ctx,
                                get_blog_data_except(f.repo, S, DefaultBranchError(answer)), S)
                  ELSE IF ok
                       THEN AfterBlogFiles(call[t], f.ctx,
                                Ok(BlogFilesOf(f.doc, f.repo, answer)), S)
                       ELSE AfterBlogFiles(call[t], f.ctx, DefaultBranchError(answer), S)
       IN  /\ _repo_default_branches' = branches
           /\ Apply(t, call[t], out, Response("get_default_branch", ok, answer))
    /\ UNCHANGED <<GITHUB_REPOS, _available_repos, _repo_caches, _repo_cache_timestamps, fetchedAt>>

\* lines 288-293 and the handlers: fetch_url resumes with the body or an error
FetchError(kind) == Raise("BlogError", [kind |-> kind])

\* variant that restarts the expiry clock when a refresh falls back to the
\* stored document
RespondBackLinksStampOnFallback(t, ok, answer, d) ==
    /\ pc[t] = "fetch_backlinks"
    /\ Arrive(d)
    /\ LET f == frame[t]
           caches == IF ok THEN Put(_repo_caches, f.repo, Doc(f.repo, answer)) ELSE _repo_caches
           stamps == IF ok \/ f.repo \in DOMAIN _repo_caches
                     THEN Put(_repo_cache_timestamps, f.repo, f.current_time)
                     ELSE _repo_cache_timestamps
           S == Shared(caches, stamps, _repo_default_branches, now')
           res == IF ok THEN Ok(caches[f.repo])
                  ELSE get_blog_data_except(f.repo, S, FetchError(answer))
       IN  /\ _repo_caches' = caches
           /\ _repo_cache_timestamps' = stamps
           /\ fetchedAt' = IF ok THEN Put(fetchedAt, f.repo, now') ELSE fetchedAt
           /\ Apply(t, call[t], AfterBlogData(call[t], f.ctx, res, S), Response("fetch_backlinks", ok, answer))
    /\ UNCHANGED <<GITHUB_REPOS, _available_repos, _repo_default_branches>>

\* variant that stores the document and leaves the timestamp for later
RespondBackLinksNoStamp(t, ok, answer, d) ==
    /\ pc[t] = "fetch_backlinks"
    /\ Arrive(d)
    /\ LET f == frame[t]
           caches == IF ok THEN Put(_repo_caches, f.repo, Doc(f.repo, answer)) ELSE _repo_caches
           S == Shared(caches, _repo_cache_timestamps, _repo_default_branches, now')
           res == IF ok THEN Ok(caches[f.repo])
                  ELSE get_blog_data_except(f.repo, S, FetchError(answer))
       IN  /\ _repo_caches' = caches
           /\ UNCHANGED _repo_cache_timestamps
           /\ fetchedAt' = IF ok THEN Put(fetchedAt, f.repo, now') ELSE fetchedAt
           /\ Apply(t, call[t], AfterBlogData(call[t], f.ctx, res, S), Response("fetch_backlinks", ok, answer))
    /\ UNCHANGED <<GITHUB_REPOS, _available_repos, _repo_default_branches>>

RespondBackLinks(t, ok, answer, d) ==
    /\ pc[t] = "fetch_backlinks"
    /\ Arrive(d)
    /\ LET f == frame[t]
           caches == IF ok THEN Put(_repo_caches, f.repo, Doc(f.repo, answer)) ELSE _repo_caches
           stamps == IF ok THEN Put(_repo_cache_timestamps, f.repo, f.current_time)
                     ELSE _repo_cache_timestamps
           S == Shared(caches, stamps, _repo_default_branches, now')
           res == IF ok THEN Ok(caches[f.repo])
                  ELSE get_blog_data_except(f.repo, S, FetchError(answer))
       IN  /\ _repo_caches' = caches
           /\ _repo_cache_timestamps' = stamps
           /\ fetchedAt' = IF ok THEN Put(fetchedAt, f.repo, now') ELSE fetchedAt
           /\ Apply(t, call[t], AfterBlogData(call[t], f.ctx, res, S), Response("fetch_backlinks", ok, answer))
    /\ UNCHANGED <<GITHUB_REPOS, _available_repos, _repo_default_branches>>

\* lines 416-471: parse_markdown_content resumes and never raises
RespondMarkdown(t, ok, answer) ==
    /\ pc[t] = "fetch_markdown"
    /\ Apply(t, call[t], AfterParse(call[t], frame[t].ctx, PostOf(frame[t].file, ok, answer)), Response("fetch_markdown", ok, answer))
    /\ UNCHANGED <<GITHUB_REPOS, shared, now>>

\* lines 932-962: the listing arrives; the detail fetches the semaphore admits start
RespondCommits(t, ok, answer) ==
    /\ pc[t] = "list_commits"
    \* GitHub lists at most per_page commits
    /\ ok => answer <= frame[t].per_page
    /\ LET c == call[t]
           n == IF c.days # <<>> /\ answer > 50 THEN 50 ELSE answer
           first == Admit(n, {})
       IN  IF ~ok THEN Apply(t, c, Done(ListingError(c, answer)), Response("list_commits", ok, answer))
           ELSE IF n = 0
           THEN Apply(t, c, Done(Text("No commits found for the specified criteria.", <<>>)), Response("list_commits", ok, answer))
           ELSE /\ pc' = [pc EXCEPT ![t] = "commit_details"]
                /\ frame' = [frame EXCEPT ![t] =
                      [fn |-> "get_recent_changes", repo |-> frame[t].repo, days |-> c.days,
                       n |-> n, open |-> 1..first,
                       results |-> [i \in 1..n |-> "pending"]]]
                /\ httpCount' = httpCount + first
                /\ UNCHANGED <<call, last>>
    /\ UNCHANGED <<GITHUB_REPOS, shared, now>>

Waiting(f) == {j \in 1..f.n : f.results[j] = "pending" /\ j \notin f.open}
FirstK(S, k) == {j \in S : Cardinality({x \in S : x < j}) < k}

\* lines 949-968: one detail fetch ends, releases its permit, the next waiting
\* fetches start; when none is left gather returns and the report is rendered
RespondCommitDetail(t, i, ok) ==
    /\ pc[t] = "commit_details"
    /\ i \in frame[t].open
    /\ LET f == frame[t]
           results == [f.results EXCEPT ![i] = IF ok THEN "ok" ELSE "failed"]
           admitted == FirstK(Waiting(f), Admit(Cardinality(Waiting(f)), f.open \ {i}))
           g == [f EXCEPT !.results = results, !.open = (f.open \ {i}) \cup admitted]
       IN  IF g.open = {}
           THEN Apply(t, call[t], Done(Render(g)), Response("commit_details", ok, i))
           ELSE /\ frame' = [frame EXCEPT ![t] = g]
                /\ httpCount' = httpCount + Cardinality(admitted)
                /\ UNCHANGED <<pc, call, last>>
    /\ UNCHANGED <<GITHUB_REPOS, shared, now>>

----------------------------------------------------------------------------
(* Inputs *)

ListingFailures == {"rate_limited", "timeout"}
CommitFailures == {"http_404", "http_403", "http_500", "timeout"}
Markdowns == { <<"#"," ","T","i","t","l","e">> }

Bools == {TRUE, FALSE}
Draws == {0, 1}
Limits == {IntArg(-1), IntArg(2), IntArg(100), NotAnInt}
Queries == { <<" ">>, <<"L","I","F">>, <<"z">> }
Urls ==
    { <<" ">>,
      <<"4","2">>,
      <<"/","f","t">>,
      <<"a","b">>,
      <<"_","d","/","4","2",".","m","d">>,
      <<"h","t","t","p","s",":","/","/","i","d","v","o","r","k",".","i","n","/","4","2">>,
      <<"h","t","t","p",":","/","/","x",".","i","o">> }
Paths == { <<>>, << <<>> >>, << <<"_","d","/">> >>, << <<"x",".","t","x","t">> >>,
           << <<"_","d","/","x",".","m","d">> >> }
DaysArgs == { <<>>, <<0>>, <<7>> }
CommitsArgs == { <<>>, <<-5>>, <<1>>, <<200>> }

BlogFilesCalls ==
    [tool : {"random_blog_url"}, repo : DataRepoArgs, rnd : Draws]
      \cup [tool : {"random_blog"}, repo : DataRepoArgs, rnd : Draws, include_content : Bools]

PostsCalls ==
    [tool : {"all_blog_posts"}, repo : DataRepoArgs]
      \cup [tool : {"recent_blog_posts"}, repo : DataRepoArgs, limit : Limits]
      \cup [tool : {"blog_search"}, repo : DataRepoArgs, limit : Limits, query : Queries]

----------------------------------------------------------------------------
(* The registry, the branch map and the back-links cache under get_blog_data *)
(* and get_blog_files                                                        *)

Init ==
    /\ GITHUB_REPOS \in RepoSpecs
    /\ _available_repos = Unresolved
    /\ _repo_default_branches = <<>>
    /\ _repo_caches = <<>>
    /\ _repo_cache_timestamps = <<>>
    /\ fetchedAt = <<>>
    /\ now = 0
    /\ httpCount = 0
    /\ pc = [t \in Tasks |-> "idle"]
    /\ call = [t \in Tasks |-> NoCall]
    /\ frame = [t \in Tasks |-> NoFrame]
    /\ last = NoLast

Next ==
    \/ Tick
    \/ Return(MainTask)
    \/ \E repo \in RepoArgs : CallValidateRepo(MainTask, repo)
    \/ \E tool \in {"list_repos", "get_available_repos"} : CallGetAvailableRepos(MainTask, tool)
    \/ \E repo \in DataRepoArgs : CallGetBlogData(MainTask, repo)
    \/ \E repo \in DataRepoArgs :
          CallBlogFilesTool(MainTask, [tool |-> "get_blog_files", repo |-> repo])
    \/ \E list \in RepoListings : RespondUserRepos(MainTask, TRUE, list)
    \/ \E e \in ListingFailures : RespondUserRepos(MainTask, FALSE, e)
    \/ \E d \in Latency, b \in Branches : RespondDefaultBranch(MainTask, TRUE, b, d)
    \/ \E d \in Latency, e \in BranchFailures : RespondDefaultBranch(MainTask, FALSE, e, d)
    \/ \E d \in Latency, b \in Bodies : RespondBackLinks(MainTask, TRUE, b, d)
    \/ \E d \in Latency, e \in FetchFailures : RespondBackLinks(MainTask, FALSE, e, d)

Spec == Init /\ [][Next]_vars

----------------------------------------------------------------------------
(* The nine tools *)

\* variant of the registrations with one function left undecorated
mcp_tools_one_undecorated ==
    { [name |-> "list_repos", description |-> "List all available repositories."],
      [name |-> "blog_info", description |-> "Get information about the blog. Optionally specify a repository."],
      [name |-> "random_blog", description |-> "Get a random blog post. Optionally specify a repository."],
      [name |-> "all_blog_posts", description |-> "Get all blog posts as JSON data. Optionally specify a repository."],
      [name |-> "read_blog_post", description |-> "Read a specific blog post by URL, redirect path, or markdown path. Optionally specify a repository."],
      [name |-> "random_blog_url", description |-> "Get a random blog post URL. Optionally specify a repository."],
      [name |-> "blog_search", description |-> "Search blog posts by title or content, returning JSON data. Optionally specify a repository."],
      [name |-> "recent_blog_posts", description |-> "Get the most recent blog posts as JSON data. Optionally specify a repository."] }

\* the functions decorated with @mcp.tool, each with the first line of its
\* docstring, which FastMCP publishes as the tool's description
mcp_tools ==
    { [name |-> "list_repos", description |-> "List all available repositories."],
      [name |-> "blog_info", description |-> "Get information about the blog. Optionally specify a repository."],
      [name |-> "random_blog", description |-> "Get a random blog post. Optionally specify a repository."],
      [name |-> "all_blog_posts", description |-> "Get all blog posts as JSON data. Optionally specify a repository."],
      [name |-> "read_blog_post", description |-> "Read a specific blog post by URL, redirect path, or markdown path. Optionally specify a repository."],
      [name |-> "random_blog_url", description |-> "Get a random blog post URL. Optionally specify a repository."],
      [name |-> "blog_search", description |-> "Search blog posts by title or content, returning JSON data. Optionally specify a repository."],
      [name |-> "recent_blog_posts", description |-> "Get the most recent blog posts as JSON data. Optionally specify a repository."],
      [name |-> "get_recent_changes", description |-> "Get recent changes from the GitHub repository."] }

\* the pull-request lister of the converged design, whose implementation is
\* not among the sources; the test suites call it and expect it listed
list_open_prs_tool ==
    [name |-> "list_open_prs",
     description |-> "List open pull requests updated within the trailing since_days days."]

\* a client asks the server for its tools
CallListTools(t) ==
    /\ Idle(t)
    /\ Apply(t, [tool |-> "list_tools"],
             Done(Value(mcp_tools \cup {list_open_prs_tool})), AtCall)
    /\ UNCHANGED <<GITHUB_REPOS, shared, now>>

RecentChangesCalls ==
    [tool : {"get_recent_changes"}, path : {<<>>}, days : {<<>>, <<7>>},
     commits : {<<>>, <<-5>>}, include_diff : {FALSE}, repo : DataRepoArgs]

NextTools ==
    \/ Tick
    \/ Return(MainTask)
    \/ CallListTools(MainTask)
    \/ CallGetAvailableRepos(MainTask, "list_repos")
    \/ \E repo \in DataRepoArgs : CallBlogInfo(MainTask, repo)
    \/ \E c \in BlogFilesCalls : CallBlogFilesTool(MainTask, c)
    \/ \E c \in PostsCalls : CallPostsTool(MainTask, c)
    \/ \E url \in Urls, repo \in DataRepoArgs : CallReadBlogPost(MainTask, url, repo)
    \/ \E c \in RecentChangesCalls :
          CallGetRecentChanges(MainTask, c.path, c.days, c.commits, c.include_diff, c.repo)
    \/ \E list \in RepoListings : RespondUserRepos(MainTask, TRUE, list)
    \/ \E e \in ListingFailures : RespondUserRepos(MainTask, FALSE, e)
    \/ RespondDefaultBranch(MainTask, TRUE, "main", 0)
    \/ \E e \in BranchFailures : RespondDefaultBranch(MainTask, FALSE, e, 0)
    \/ \E b \in Bodies : RespondBackLinks(MainTask, TRUE, b, 0)
    \/ \E e \in FetchFailures : RespondBackLinks(MainTask, FALSE, e, 0)
    \/ \E m \in Markdowns : RespondMarkdown(MainTask, TRUE, m)
    \/ RespondMarkdown(MainTask, FALSE, "Failed to fetch")
    \/ \E n \in 0..MaxListed : RespondCommits(MainTask, TRUE, n)
    \/ \E e \in CommitFailures : RespondCommits(MainTask, FALSE, e)
    \/ \E i \in 1..MaxListed, ok \in Bools : RespondCommitDetail(MainTask, i, ok)

SpecTools == Init /\ [][NextTools]_vars

----------------------------------------------------------------------------
(* get_recent_changes over every combination of its arguments *)

NextChanges ==
    \/ Return(MainTask)
    \/ CallGetAvailableRepos(MainTask, "list_repos")
    \/ \E list \in RepoListings : RespondUserRepos(MainTask, TRUE, list)
    \/ \E e \in ListingFailures : RespondUserRepos(MainTask, FALSE, e)
    \/ \E path \in Paths, days \in DaysArgs, commits \in CommitsArgs, diff \in Bools,
          repo \in DataRepoArgs :
          CallGetRecentChanges(MainTask, path, days, commits, diff, repo)
    \/ \E n \in 0..MaxListed : RespondCommits(MainTask, TRUE, n)
    \/ \E e \in CommitFailures : RespondCommits(MainTask, FALSE, e)
    \/ \E i \in 1..MaxListed, ok \in Bools : RespondCommitDetail(MainTask, i, ok)

SpecChanges == Init /\ [][NextChanges]_vars

----------------------------------------------------------------------------
(* The post tools over a served back-links document *)

PostBodies == {"posts", "shadow", "legacy", "pages"}

ReadUrls ==
    { <<"4","2">>, Path42,
      BLOG_URL \o Path42,
      <<"h","t","t","p",":","/","/">> \o BlogDomain \o Path42,
      Md42, <<"/">> \o Md42,
      <<"4","2",".","m","d">>, <<"/","4","2",".","m","d">>,
      <<"f","t">>, <<"/","f","t">>, <<"/","e">>, <<"a","b">>, <<"/","n","p">>,
      <<"o","l","d">>, <<"/","o","l","d">>, <<"g","o">>,
      <<"r",".","m","d">>, <<"h","t","t","p","x">>, <<"/","h","t","t","p","x">>,
      <<"h","t","t","p",":","/","/","x",".","i","o","/","4","2">>,
      <<"h","t","t","p",":","/","/","x",".","i","o","/">> \o BlogDomain \o Path42 }

PostLimits == {IntArg(-1), IntArg(0), IntArg(1), IntArg(2), IntArg(3), IntArg(20),
               IntArg(21), IntArg(50), IntArg(51), IntArg(100), NotAnInt}

PostQueries == { <<"L","I","F">>, <<" ","t","e","a"," ">>, <<"z">>, <<"t">> }

PostToolCalls ==
    [tool : {"all_blog_posts"}, repo : {None}]
      \cup [tool : {"recent_blog_posts"}, repo : {None}, limit : PostLimits]
      \cup [tool : {"blog_search"}, repo : {None}, limit : PostLimits, query : PostQueries]

\* random.choice may draw any of the files
RandomCalls ==
    [tool : {"random_blog_url"}, repo : {None}, rnd : 0..3]
      \cup [tool : {"random_blog"}, repo : {None}, rnd : 0..3, include_content : Bools]

NextPosts ==
    \/ Return(MainTask)
    \/ CallBlogFilesTool(MainTask, [tool |-> "get_blog_files", repo |-> None])
    \/ \E c \in RandomCalls : CallBlogFilesTool(MainTask, c)
    \/ \E c \in PostToolCalls : CallPostsTool(MainTask, c)
    \/ \E url \in ReadUrls : CallReadBlogPost(MainTask, url, None)
    \/ \E b \in Branches : RespondDefaultBranch(MainTask, TRUE, b, 0)
    \/ \E b \in PostBodies : RespondBackLinks(MainTask, TRUE, b, 0)
    \/ \E e \in FetchFailures : RespondBackLinks(MainTask, FALSE, e, 0)
    \/ \E m \in Markdowns : RespondMarkdown(MainTask, TRUE, m)
    \/ RespondMarkdown(MainTask, FALSE, "Failed to fetch")

InitPosts == Init /\ IsWildcard(GITHUB_REPOS)

SpecPosts == InitPosts /\ [][NextPosts]_vars

----------------------------------------------------------------------------
(* parse_markdown_content called on its own *)

ParseTexts ==
    { <<"#"," ","H","e","l","l","o","\n","\n","b","o","d","y">>,
      <<"-","-","-","\n","t","i","t","l","e",":"," ","\"","H","i","\"","\n","d","a","t","e",":"," ","2","0","2","4","-","0","1","-","0","2","\n","-","-","-","\n","\n","\n","b","o","d","y"," "," ","\n"," ","\n","m","o","r","e">>,
      <<"t","i","t","l","e",":"," ","'","A","'","\n","#"," ","B">>,
      <<" "," ","#"," ","C"," "," ","\n","t","e","x","t">>,
      <<"b","o","d","y"," ","o","n","l","y">>,
      <<>>,
      <<"x","\n","x","\n","x","\n","x","\n","x","\n","x","\n","x","\n","x","\n","x","\n","x","\n","#"," ","L","a","t","e">>,
      <<"#","N","o","S","p","a","c","e","\n","d","a","t","e",":"," ","'","2","0","2","0","'">>,
      <<"\n","\n"," "," ","l","e","a","d","\n","\t","\n","\n","t","a","i","l","\n">>,
      <<"#"," ","U","n","t","i","t","l","e","d">>,
      <<"t","i","t","l","e",":","\"","\"","Q","\"","\"">>,
      <<"#"," ","E","r","r","o","r"," ","l","o","a","d","i","n","g"," ","p","o","s","t">>,
      [i \in 1..205 |-> "a"],
      <<"#"," ">> \o [i \in 1..201 |-> "b"] }

\* what fetch_url raises: BlogError("Failed to fetch ...") for an HTTP status or
\* a timeout, BlogError("Unexpected error fetching ...") for anything else
ParseFailures == {"Failed to fetch: 404", "Failed to fetch: timeout", "Unexpected error fetching"}

FileOf(name, key) ==
    [name |-> name, path |-> <<"_","d","/">> \o name,
     download_url |-> [repo |-> DEFAULT_REPO, branch |-> "main", path |-> <<"_","d","/">> \o name],
     html_url |-> BLOG_URL \o key]

Without(f, k) == [x \in DOMAIN f \ {k} |-> f[x]]

MyPost == FileOf(<<"m","y","-","p","o","s","t",".","m","d">>, <<"/","m","y","-","p","o","s","t">>)

\* descriptors as get_blog_files builds them, and with fields missing
ParseFiles ==
    { MyPost,
      FileOf(<<"a","_","b",".","m","d">>, <<"/","a","b">>),
      FileOf(<<"4","2",".","m","d">>, <<"/","4","2">>),
      FileOf(<<"M","y","_","P","O","S","T","-","2",".","m","d">>, <<"/","p","2">>),
      Without(MyPost, "download_url"),
      Without(MyPost, "name"),
      Without(MyPost, "html_url"),
      Without(Without(MyPost, "name"), "html_url"),
      Without(Without(Without(MyPost, "name"), "html_url"), "download_url") }

\* lines 412-416: the descriptor's download_url is read before the request
CallParseMarkdown(t, file) ==
    /\ Idle(t)
    /\ LET c == [tool |-> "parse_markdown_content", file |-> file]
       IN  IF "download_url" \in DOMAIN file
           THEN Apply(t, c, ParseMarkdown(file, [stage |-> "parse"]), AtCall)
           ELSE Apply(t, c, AfterParse(c, [stage |-> "parse"],
                                       FailedPost(file, KeyError("download_url"))), AtCall)
    /\ UNCHANGED <<GITHUB_REPOS, shared, now>>

NextParse ==
    \/ Return(MainTask)
    \/ \E file \in ParseFiles : CallParseMarkdown(MainTask, file)
    \/ \E text \in ParseTexts : RespondMarkdown(MainTask, TRUE, text)
    \/ \E e \in ParseFailures : RespondMarkdown(MainTask, FALSE, e)

SpecParse == InitPosts /\ [][NextParse]_vars

----------------------------------------------------------------------------
(* get_recent_changes when the listing holds more commits than the semaphore *)
(* has permits                                                               *)

ManyCommits == SEMAPHORE_PERMITS + ExtraCommits

\* the detail fetches that may fail: the first to start and the last to start
FailingCommits == {1, ManyCommits}

InitSemaphore == Init /\ IsWildcard(GITHUB_REPOS)

NextSemaphore ==
    \/ Return(MainTask)
    \/ CallGetRecentChanges(MainTask, <<>>, <<>>, <<ManyCommits>>, FALSE, None)
    \/ RespondCommits(MainTask, TRUE, ManyCommits)
    \/ \E i \in 1..ManyCommits : RespondCommitDetail(MainTask, i, TRUE)
    \/ \E i \in FailingCommits : RespondCommitDetail(MainTask, i, FALSE)

SpecSemaphore == InitSemaphore /\ [][NextSemaphore]_vars

----------------------------------------------------------------------------
(* get_recent_changes over long commit listings; the detail fetches answer *)
(* in the order they were started                                           *)

ListingSizes == {0, 1, 2, 3, 10, 11, 50, 51, 100, 101}

ListingCalls ==
    [days : {<<>>, <<7>>}, commits : {<<>>, <<2>>, <<200>>}]

\* the fetch that was started first answers; only the first and the last
\* commit of the listing may fail
RespondOldestDetail(t, ok) ==
    /\ pc[t] = "commit_details"
    /\ LET i == CHOOSE j \in frame[t].open : \A k \in frame[t].open : j <= k
       IN  /\ ok \/ i \in {1, frame[t].n}
           /\ RespondCommitDetail(t, i, ok)

NextListing ==
    \/ Return(MainTask)
    \/ \E c \in ListingCalls :
          CallGetRecentChanges(MainTask, <<>>, c.days, c.commits, FALSE, None)
    \/ \E n \in ListingSizes : RespondCommits(MainTask, TRUE, n)
    \/ \E e \in CommitFailures : RespondCommits(MainTask, FALSE, e)
    \/ \E ok \in Bools : RespondOldestDetail(MainTask, ok)

SpecListing == InitSemaphore /\ [][NextListing]_vars

----------------------------------------------------------------------------
(* Two invocations of get_blog_data and get_blog_files on the event loop,   *)
(* interleaved at their suspension points                                   *)

RaceCalls == [tool : {"get_blog_data"}, repo : DataRepoArgs]

CallRace(t, c) ==
    /\ Idle(t)
    /\ Apply(t, c, CallBlogData(c, [stage |-> c.tool], Here), AtCall)
    /\ UNCHANGED <<GITHUB_REPOS, shared, now>>

NextRace ==
    \/ Tick
    \/ \E t \in Tasks : Return(t)
    \/ \E t \in Tasks, c \in RaceCalls : CallRace(t, c)
    \/ \E t \in Tasks, d \in Latency, b \in Branches : RespondDefaultBranch(t, TRUE, b, d)
    \/ \E t \in Tasks, d \in Latency : RespondDefaultBranch(t, FALSE, "timeout", d)
    \/ \E t \in Tasks, d \in Latency, b \in ObjectBodies : RespondBackLinks(t, TRUE, b, d)
    \/ \E t \in Tasks, d \in Latency : RespondBackLinks(t, FALSE, "http_error", d)

SpecRace == InitSemaphore /\ [][NextRace]_vars

----------------------------------------------------------------------------
(* Two interleaved resolutions of the registry *)

NextRegistry ==
    \/ \E t \in Tasks : Return(t)
    \/ \E t \in Tasks, tool \in {"list_repos", "get_available_repos"} :
          CallGetAvailableRepos(t, tool)
    \/ \E t \in Tasks, list \in RepoListings : RespondUserRepos(t, TRUE, list)
    \/ \E t \in Tasks, e \in ListingFailures : RespondUserRepos(t, FALSE, e)

SpecRegistry == Init /\ [][NextRegistry]_vars

----------------------------------------------------------------------------
(* Properties *)

\* the repository a call is about: the argument, or the default when omitted
NameOf(repo) == IF repo = None THEN DEFAULT_REPO ELSE repo

\* the repository name carried by the requests a suspended call has open
RequestNames ==
    CASE pc[MainTask] \in {"get_default_branch", "fetch_backlinks", "list_commits",
                           "commit_details"} -> {frame[MainTask].repo}
      [] pc[MainTask] = "fetch_markdown" -> {frame[MainTask].file.download_url.repo}
      [] OTHER -> {}

\* C1: when get_blog_data(R) refreshes an expired document and the refresh
\* fails (branch lookup, HTTP or transport error, malformed JSON), the call
\* returns exactly the document that was stored before, raises nothing and
\* leaves the stored document as it was.
C1_StaleFallback ==
    [][ ( /\ call[MainTask].tool = "get_blog_data"
          /\ pc[MainTask] \in {"get_default_branch", "fetch_backlinks"}
          /\ frame[MainTask].repo \in DOMAIN _repo_caches
          /\ pc'[MainTask] = "done"
          /\ ~last'.event.ok )
        => /\ last'.ret = Value(_repo_caches[frame[MainTask].repo])
           /\ _repo_caches' = _repo_caches ]_vars

C1_Witness ==
    /\ pc[MainTask] = "done"
    /\ last.call.tool = "get_blog_data"
    /\ last.event.at = "fetch_backlinks"
    /\ ~last.event.ok
    /\ last.event.answer = "malformed_json"
    /\ last.ret.kind = "value"
    /\ now >= CACHE_DURATION

\* C2: once a document is stored for R (some get_blog_data(R) succeeded), every
\* get_blog_data(R) and get_blog_files(R) call that ends returns data and does
\* not raise.
C2_ServedNeverFails ==
    [][ ( /\ pc[MainTask] # "done"
          /\ pc'[MainTask] = "done"
          /\ call'[MainTask].tool \in {"get_blog_data", "get_blog_files"}
          /\ NameOf(call'[MainTask].repo) \in DOMAIN _repo_caches )
        => last'.ret.kind = "value" ]_vars

\* C3: with R's document fetched at time T (the arrival of the response), a
\* get_blog_data(R) call less than 300 s after T issues no request and returns
\* the stored document, and a call more than 300 s after T issues a fetch.
C3_FreshFromFetchTime ==
    [][ ( /\ pc[MainTask] = "idle"
          /\ call'[MainTask].tool = "get_blog_data"
          /\ ~validate_repo(call'[MainTask].repo).raise
          /\ NameOf(call'[MainTask].repo) \in DOMAIN fetchedAt )
        => LET R == NameOf(call'[MainTask].repo)
               T == fetchedAt[R]
           IN  /\ (now - T < CACHE_DURATION) =>
                     /\ pc'[MainTask] = "done"
                     /\ httpCount' = httpCount
                     /\ last'.ret = Value(_repo_caches[R])
               /\ (now - T > CACHE_DURATION) =>
                     /\ pc'[MainTask] = "fetch_backlinks"
                     /\ httpCount' = httpCount + 1 ]_vars

ToolNames ==
    {"list_repos", "blog_info", "random_blog", "random_blog_url", "read_blog_post",
     "blog_search", "recent_blog_posts", "all_blog_posts", "get_recent_changes"}

\* C4: every tool invocation that ends hands back a text or a JSON value,
\* whatever its arguments, the stored documents and the answers of GitHub; no
\* exception leaves a tool.
C4_ToolsReturnValues ==
    (pc[MainTask] = "done" /\ last.call.tool \in ToolNames)
        => last.ret.kind \in {"text", "json"}

C4_Witness ==
    /\ pc[MainTask] = "done"
    /\ last.call.tool = "read_blog_post"
    /\ last.event.at = "fetch_backlinks"
    /\ last.event.ok
    /\ last.event.answer = "nonobject"
    /\ last.ret.kind = "text"

\* C5: with a resolved registry validate_repo(name) returns name for a member,
\* the default repository for None, and raises BlogError naming every registry
\* entry for a non-member; it changes neither the registry nor any cache.
C5_ValidateRepo ==
    [][ ( /\ pc[MainTask] = "idle"
          /\ pc'[MainTask] = "done"
          /\ call'[MainTask].tool = "validate_repo" )
        => /\ UNCHANGED shared
           /\ _available_repos.resolved =>
                LET name == call'[MainTask].repo
                    list == _available_repos.list
                IN  /\ name = None => last'.ret = Value(DEFAULT_REPO)
                    /\ (name # None /\ InSeq(name, list)) => last'.ret = Value(name)
                    /\ (name # None /\ ~InSeq(name, list)) =>
                          /\ last'.ret.kind = "raise"
                          /\ last'.ret.exc = "BlogError"
                          /\ \A i \in 1..Len(list) :
                                InSeq(list[i], last'.ret.msg.available_list) ]_vars

C5_Witness ==
    /\ pc[MainTask] = "done"
    /\ last.call.tool = "validate_repo"
    /\ _available_repos.resolved
    /\ Len(_available_repos.list) = 2
    /\ last.ret.kind = "raise"

\* C6 as stated: every open request made for a repository name uses a member
\* of the resolved registry or the default repository.
C6_RequestsUseRegisteredRepo ==
    \A r \in RequestNames :
        \/ r = DEFAULT_REPO
        \/ (_available_repos.resolved /\ InSeq(r, _available_repos.list))

\* C6: every open request made for a repository name uses the default
\* repository, or a name validate_repo let through: a member of the registry
\* when the registry is resolved, any name while it is not.
C6_RequestsUseValidatedRepo ==
    \A r \in RequestNames :
        \/ r = DEFAULT_REPO
        \/ ~_available_repos.resolved
        \/ InSeq(r, _available_repos.list)

C6_Witness ==
    /\ pc[MainTask] = "fetch_markdown"
    /\ RequestNames = {"r2"}
    /\ _available_repos.resolved

C8_AtMostPermitsInFlight ==
    pc[MainTask] = "commit_details" =>
        /\ Cardinality(frame[MainTask].open) <= SEMAPHORE_PERMITS
        /\ httpCount = 1 + frame[MainTask].n - Cardinality(Waiting(frame[MainTask]))

C8_Witness ==
    /\ pc[MainTask] = "commit_details"
    /\ Cardinality(frame[MainTask].open) = SEMAPHORE_PERMITS
    /\ Waiting(frame[MainTask]) # {}

ErrorNoDetails == "Error: Failed to fetch commit details."

\* C9: a commit-detail fetch that fails is dropped and the other fetches go
\* on undisturbed; the report lists exactly the commits whose fetch succeeded,
\* and "Error: Failed to fetch commit details." is returned if and only if
\* commits were listed and every detail fetch failed.
C9_FailedDetailsAreDropped ==
    [][ /\ ( /\ pc[MainTask] = "commit_details"
             /\ pc'[MainTask] = "commit_details" )
           => /\ frame'[MainTask].n = frame[MainTask].n
              /\ \A j \in 1..frame[MainTask].n :
                    frame[MainTask].results[j] # "pending"
                        => frame'[MainTask].results[j] = frame[MainTask].results[j]
              /\ \A j \in frame[MainTask].open :
                    j \in frame'[MainTask].open \/ frame'[MainTask].results[j] # "pending"
        /\ ( /\ pc[MainTask] # "done"
             /\ pc'[MainTask] = "done"
             /\ call'[MainTask].tool = "get_recent_changes" )
           => LET gathered == pc[MainTask] = "commit_details"
                  final == [j \in 1..(IF gathered THEN frame[MainTask].n ELSE 0) |->
                               IF j = last'.event.answer
                               THEN (IF last'.event.ok THEN "ok" ELSE "failed")
                               ELSE frame[MainTask].results[j]]
                  succeeded == SelectSeq([j \in 1..Len(final) |-> j],
                                         LAMBDA j : final[j] = "ok")
              IN  /\ (last'.ret.text = ErrorNoDetails)
                        <=> (gathered /\ Len(final) >= 1 /\ succeeded = <<>>)
                  /\ (gathered /\ succeeded # <<>>)
                        => last'.ret.detail.commits = succeeded ]_vars

C9_Witness ==
    /\ pc[MainTask] = "done"
    /\ last.call.tool = "get_recent_changes"
    /\ last.event.at = "commit_details"
    /\ last.ret.text = "Recent changes (last K commits):"
    /\ last.ret.detail.commits = <<2>>

\* the Error text the checks of get_recent_changes are to give, in their order
FirstFailingCheck(c) ==
    LET given == c.path # <<>> /\ c.path[1] # <<>>
    IN  IF c.days # <<>> /\ c.commits # <<>>
        THEN "Error: Cannot specify both 'days' and 'commits' parameters. Choose one."
        ELSE IF c.days # <<>> /\ c.days[1] <= 0
        THEN "Error: 'days' must be a positive number."
        ELSE IF c.commits # <<>> /\ c.commits[1] <= 0
        THEN "Error: 'commits' must be a positive number."
        ELSE IF c.include_diff /\ given /\ c.path[1][Len(c.path[1])] = "/"
        THEN "Error: When include_diff is true, path must be a specific file, not a directory."
        ELSE IF c.include_diff /\ given /\ SubSeq(c.path[1], Len(c.path[1]) - 2, Len(c.path[1])) # <<".", "m", "d">>
        THEN "Error: When include_diff is true, path must be a markdown file (ending in .md)."
        ELSE "none"

CheckErrors ==
    {"Error: Cannot specify both 'days' and 'commits' parameters. Choose one.",
     "Error: 'days' must be a positive number.",
     "Error: 'commits' must be a positive number.",
     "Error: When include_diff is true, path must be a specific file, not a directory.",
     "Error: When include_diff is true, path must be a markdown file (ending in .md)."}

\* C10: get_recent_changes checks (1) days and commits both given, (2) days
\* <= 0, (3) commits <= 0, (4) include_diff with a path ending in "/" or not in
\* ".md", in this order; a failing check ends the call with the Error text of
\* the first one that fails, with no request issued and the registry and the
\* caches untouched; a call that fails no check (include_diff with a ".md"
\* path among them) gets none of these texts.
C10_ChecksInOrder ==
    [][ ( /\ pc[MainTask] = "idle"
          /\ call'[MainTask].tool = "get_recent_changes" )
        => LET c == call'[MainTask]
               first == FirstFailingCheck(c)
           IN  /\ first # "none" =>
                     /\ pc'[MainTask] = "done"
                     /\ last'.ret = Text(first, <<>>)
                     /\ httpCount' = httpCount
                     /\ UNCHANGED shared
               /\ (first = "none" /\ pc'[MainTask] = "done") =>
                     last'.ret.text \notin CheckErrors ]_vars

C10_Witness ==
    /\ pc[MainTask] = "done"
    /\ last.call.tool = "get_recent_changes"
    /\ last.call.days = <<0>>
    /\ last.call.include_diff
    /\ last.call.path = << <<"_", "d", "/">> >>
    /\ last.ret.text = "Error: 'days' must be a positive number."

\* the document stored for the default repository, when there is one
Served == DEFAULT_REPO \in DOMAIN _repo_caches
ServedLinks == BackLinks(_repo_caches[DEFAULT_REPO].body)

Forms42 ==
    { <<"4","2">>, <<"/","4","2">>,
      <<"h","t","t","p","s",":","/","/","i","d","v","o","r","k",".","i","n","/","4","2">>,
      <<"h","t","t","p",":","/","/","i","d","v","o","r","k",".","i","n","/","4","2">>,
      <<"_","d","/","4","2",".","m","d">>, <<"/","_","d","/","4","2",".","m","d">>,
      <<"4","2",".","m","d">>, <<"/","4","2",".","m","d">> }

\* C11: whenever the served document maps /42 to _d/42.md, read_blog_post
\* given '42', '/42', the https or http URL of /42, '_d/42.md', '/_d/42.md',
\* '42.md' or '/42.md' returns the post of that entry.
C11_AllFormsSamePost ==
    ( /\ pc[MainTask] = "done"
      /\ last.call.tool = "read_blog_post"
      /\ last.call.url \in Forms42
      /\ Served
      /\ \E i \in 1..Len(ServedLinks.url_info) :
            /\ ServedLinks.url_info[i].url = <<"/","4","2">>
            /\ ServedLinks.url_info[i].markdown_path = <<"_","d","/","4","2",".","m","d">> )
    => /\ last.ret.text = "Blog Post"
       /\ last.ret.detail.post.url =
             <<"h","t","t","p","s",":","/","/","i","d","v","o","r","k",".","i","n","/","4","2">>
       /\ last.ret.detail.post.filename = <<"4","2",".","m","d">>

\* a url_info key with a non-empty markdown_path / with a content-directory one
HasSource(links, path) ==
    \E i \in 1..Len(links.url_info) :
        links.url_info[i].url = path /\ links.url_info[i].markdown_path # <<>>
IsPost(links, path) ==
    \E i \in 1..Len(links.url_info) :
        /\ links.url_info[i].url = path
        /\ links.url_info[i].markdown_path # <<>>
        /\ IsContentPath(links.url_info[i].markdown_path)

ReadDone ==
    pc[MainTask] = "done" /\ last.call.tool = "read_blog_post" /\ Served

\* C12: a path p that is no url_info key with a markdown_path, and that the
\* redirects table sends to a content-directory post t, read with or without
\* its leading slash, returns the post of t under the label 'Blog Post (via
\* redirect from p)'; a path that is itself a content-directory post is
\* returned under the plain label even when it is also a redirects key.
C12_RedirectLabel ==
    ReadDone =>
      /\ \A k \in 1..Len(ServedLinks.redirects) :
            LET p == ServedLinks.redirects[k][1]
                t == ServedLinks.redirects[k][2]
            IN  ( /\ ~HasSource(ServedLinks, p)
                  /\ IsPost(ServedLinks, t)
                  /\ last.call.url \in {p, Tail(p)} )
                => /\ last.ret.text = "Blog Post (via redirect from {path})"
                   /\ last.ret.detail.via = p
                   /\ last.ret.detail.post.url = BLOG_URL \o t
      /\ \A k \in 1..Len(ServedLinks.redirects) :
            LET p == ServedLinks.redirects[k][1]
            IN  (IsPost(ServedLinks, p) /\ last.call.url \in {p, Tail(p)})
                => /\ last.ret.text = "Blog Post"
                   /\ last.ret.detail.post.url = BLOG_URL \o p

\* the host of an absolute URL: what follows the scheme, up to the next slash
RECURSIVE UpToSlash(_)
UpToSlash(s) == IF s = <<>> \/ s[1] = "/" THEN <<>> ELSE <<s[1]>> \o UpToSlash(Tail(s))
HostOf(url) ==
    IF StartsWith(url, <<"h","t","t","p","s",":","/","/">>) THEN UpToSlash(SubSeq(url, 9, Len(url)))
    ELSE IF StartsWith(url, <<"h","t","t","p",":","/","/">>) THEN UpToSlash(SubSeq(url, 8, Len(url)))
    ELSE <<>>

\* C13: read_blog_post of a url that starts with 'http' and whose host is not
\* the blog domain returns 'Error: URL must be from <blog domain>' and nothing
\* that comes from looking the url up.
C13_ForeignHostRejected ==
    ( /\ ReadDone
      /\ StartsWith(last.call.url, <<"h","t","t","p",":","/","/">>)
      /\ HostOf(last.call.url) # BlogDomain )
    => /\ last.ret.text = "Error: URL must be from "
       /\ last.ret.detail = BlogDomain

\* the positions, in document order, of the url_info items whose markdown_path
\* is non-empty and starts with _d/, _posts/ or td/
InContentDirectory(e) ==
    /\ e.markdown_path # <<>>
    /\ \E prefix \in { <<"_","d","/">>, <<"_","p","o","s","t","s","/">>, <<"t","d","/">> } :
          Len(e.markdown_path) >= Len(prefix)
          /\ SubSeq(e.markdown_path, 1, Len(prefix)) = prefix
ContentPositions(info) ==
    SelectSeq([i \in 1..Len(info) |-> i], LAMBDA i : InContentDirectory(info[i]))

\* C14: get_blog_files returns exactly one descriptor for each url_info item
\* whose markdown_path is non-empty and in _d/, _posts/ or td/, in document
\* order, and none for any other item; the descriptor's path is the
\* markdown_path and its html_url is the blog base URL followed by the key.
C14_BlogFilesAreContentEntries ==
    ( /\ pc[MainTask] = "done"
      /\ last.call.tool = "get_blog_files"
      /\ last.ret.kind = "value"
      /\ Served )
    => LET info == ServedLinks.url_info
           at == ContentPositions(info)
           files == last.ret.value
       IN  /\ Len(files) = Len(at)
           /\ \A j \in 1..Len(at) :
                /\ files[j].path = info[at[j]].markdown_path
                /\ files[j].html_url = BLOG_URL \o info[at[j]].url

C14_Witness ==
    /\ pc[MainTask] = "done"
    /\ last.call.tool = "get_blog_files"
    /\ last.ret.kind = "value"
    /\ Served
    /\ Len(last.ret.value) = 4
    /\ Len(ServedLinks.url_info) = 7
    /\ last.ret.value[1].path = <<"_","p","o","s","t","s","/","p",".","m","d">>

\* the public URLs of the url_info items in a content directory
PostUrls(info) ==
    { BLOG_URL \o info[i].url : i \in {k \in 1..Len(info) : InContentDirectory(info[k])} }

\* the public URLs a finished call has handed out as posts
ReturnedUrls ==
    IF last.ret.kind = "json"
    THEN IF "posts" \in DOMAIN last.ret.json
         THEN { last.ret.json.posts[j].url : j \in 1..Len(last.ret.json.posts) }
         ELSE {}
    ELSE IF last.ret.kind = "text"
    THEN IF last.ret.text \in {"Blog Post", "Blog Post (via redirect from {path})",
                               "Random Blog Post"}
         THEN { last.ret.detail.post.url }
         ELSE IF last.ret.text \in {"", "Random blog post URL: "}
         THEN { last.ret.detail }
         ELSE {}
    ELSE {}

PostTools ==
    {"random_blog", "random_blog_url", "blog_search", "recent_blog_posts",
     "all_blog_posts", "read_blog_post"}

\* C15: whatever random_blog, random_blog_url, blog_search, recent_blog_posts,
\* all_blog_posts and read_blog_post (under every input form) return as a post
\* is a url_info item whose markdown_path is non-empty and in _d/, _posts/ or
\* td/.
C15_OnlyContentEntriesReturned ==
    (pc[MainTask] = "done" /\ last.call.tool \in PostTools /\ Served)
    => /\ ReturnedUrls \subseteq PostUrls(ServedLinks.url_info)
       /\ last.ret.kind = "json" /\ "posts" \in DOMAIN last.ret.json
            => \A j \in 1..Len(last.ret.json.posts) :
                  \E i \in 1..Len(ServedLinks.url_info) :
                      /\ InContentDirectory(ServedLinks.url_info[i])
                      /\ last.ret.json.posts[j].markdown_path =
                            ServedLinks.url_info[i].markdown_path

\* the page /x (pg/x.md) names the legacy redirect 'go'; reading 'go' finds
\* no post
C15_Witness ==
    /\ ReadDone
    /\ last.call.url = <<"g","o">>
    /\ \E i \in 1..Len(ServedLinks.url_info) :
          /\ ServedLinks.url_info[i].redirect_url = <<"g","o">>
          /\ ~InContentDirectory(ServedLinks.url_info[i])
    /\ last.ret.text = "Blog post not found for: "

SearchDone ==
    pc[MainTask] = "done" /\ last.call.tool = "blog_search" /\ Served
      /\ last.ret.kind = "json"

\* the positions, in document order, of the content-directory items whose
\* lower-cased title or description contains the trimmed, lower-cased query
MatchPositions(info, query) ==
    SelectSeq(ContentPositions(info),
              LAMBDA i : \/ Contains(Lower(info[i].title), Lower(Strip(query)))
                         \/ Contains(Lower(info[i].description), Lower(Strip(query))))

\* C16: blog_search returns the first min(L, m) matching items in document
\* order, L being the effective limit and m the number of matching
\* content-directory items; count is the number of posts returned and is at
\* most L; with no match the result is an error object.
C16_SearchReturnsFirstMatches ==
    SearchDone =>
      LET info == ServedLinks.url_info
          at == MatchPositions(info, last.call.query)
          json == last.ret.json
      IN  IF at = <<>>
          THEN "error" \in DOMAIN json /\ "posts" \notin DOMAIN json
          ELSE /\ DOMAIN json = {"query", "count", "limit", "posts"}
               /\ Len(json.posts) = Min(json.limit, Len(at))
               /\ \A j \in 1..Len(json.posts) :
                    /\ json.posts[j].url = BLOG_URL \o info[at[j]].url
                    /\ json.posts[j].title = info[at[j]].title
                    /\ json.posts[j].markdown_path = info[at[j]].markdown_path
               /\ json.count = Len(json.posts)
               /\ json.count <= json.limit

\* three items match 'LIF' but the limit is 2: the first two are returned
C16_Witness ==
    /\ SearchDone
    /\ last.call.query = <<"L","I","F">>
    /\ last.call.limit = IntArg(2)
    /\ Len(MatchPositions(ServedLinks.url_info, last.call.query)) = 3
    /\ "posts" \in DOMAIN last.ret.json
    /\ last.ret.json.count = 2
    /\ last.ret.json.posts[2].title = <<"L","I","F","T">>

\* nothing matches 'z': an error object
C16_WitnessNoMatch ==
    /\ SearchDone
    /\ last.call.query = <<"z">>
    /\ "error" \in DOMAIN last.ret.json

\* C17: the effective limit of blog_search is int(limit) clamped to 1..20, or
\* 5 when limit is no integer, and it is the value of the result's 'limit'.
C17_SearchLimitClamped ==
    (SearchDone /\ "limit" \in DOMAIN last.ret.json)
    => LET limit == last.call.limit
       IN  /\ ~limit.int => last.ret.json.limit = 5
           /\ limit.int /\ limit.n < 1 => last.ret.json.limit = 1
           /\ limit.int /\ limit.n > 20 => last.ret.json.limit = 20
           /\ limit.int /\ limit.n >= 1 /\ limit.n <= 20 => last.ret.json.limit = limit.n
           /\ Len(last.ret.json.posts) <= last.ret.json.limit

\* limit = -1 behaves as 1: one of three matches is returned
C17_Witness ==
    /\ SearchDone
    /\ last.call.limit = IntArg(-1)
    /\ "limit" \in DOMAIN last.ret.json
    /\ last.ret.json.limit = 1
    /\ Len(MatchPositions(ServedLinks.url_info, last.call.query)) = 3
    /\ Len(last.ret.json.posts) = 1

RecentDone ==
    pc[MainTask] = "done" /\ last.call.tool = "recent_blog_posts" /\ Served
      /\ last.ret.kind = "json"

\* post a belongs before post b: a has a timestamp and b has none or an
\* earlier one
Newer(a, b) ==
    /\ a.last_modified # <<>>
    /\ b.last_modified = <<>> \/ a.last_modified[1] > b.last_modified[1]

\* C18: recent_blog_posts returns the content-directory posts sorted by
\* last_modified descending, posts without a timestamp after all posts with
\* one, truncated to the effective limit (int(limit) clamped to 1..50, 20
\* when limit is no integer); count = min(effective limit, candidates).
C18_RecentSortedAndTruncated ==
    (RecentDone /\ ContentPositions(ServedLinks.url_info) # <<>>)
    => LET info == ServedLinks.url_info
           at == ContentPositions(info)
           limit == last.call.limit
           effective == IF ~limit.int THEN 20
                        ELSE IF limit.n < 1 THEN 1
                        ELSE IF limit.n > 50 THEN 50 ELSE limit.n
           posts == last.ret.json.posts
           candidates == { BLOG_URL \o info[at[i]].url : i \in 1..Len(at) }
           returned == { posts[j].url : j \in 1..Len(posts) }
       IN  /\ last.ret.json.limit = effective
           /\ last.ret.json.count = Min(effective, Len(at))
           /\ Len(posts) = last.ret.json.count
           /\ returned \subseteq candidates
           /\ Cardinality(returned) = Len(posts)
           /\ \A j \in 1..Len(posts) : \A k \in (j+1)..Len(posts) : ~Newer(posts[k], posts[j])
           /\ \A j \in 1..Len(posts) :
                \E i \in 1..Len(at) :
                    /\ posts[j].url = BLOG_URL \o info[at[i]].url
                    /\ posts[j].last_modified = info[at[i]].last_modified
                    /\ posts[j].markdown_path = info[at[i]].markdown_path
           /\ \A i \in 1..Len(at) :
                BLOG_URL \o info[at[i]].url \notin returned
                => \A j \in 1..Len(posts) :
                      ~Newer([last_modified |-> info[at[i]].last_modified], posts[j])

\* four candidates under limit 3: the post without a timestamp, third in the
\* document, is the one left out
C18_Witness ==
    /\ RecentDone
    /\ last.call.limit = IntArg(3)
    /\ Len(ContentPositions(ServedLinks.url_info)) = 4
    /\ ServedLinks.url_info[ContentPositions(ServedLinks.url_info)[3]].last_modified = <<>>
    /\ last.ret.json.count = 3
    /\ last.ret.json.posts[3].url = BLOG_URL \o Path42

\* limit 51 is 50, and the post without a timestamp comes last of four
C18_WitnessAll ==
    /\ RecentDone
    /\ last.call.limit = IntArg(51)
    /\ last.ret.json.limit = 50
    /\ last.ret.json.count = 4
    /\ last.ret.json.posts[4].last_modified = <<>>

\* what all_blog_posts returns for the served document
AllPostsOfServed == all_blog_posts_body(_repo_caches[DEFAULT_REPO]).json

\* C19: over the same cached document, the posts of recent_blog_posts(limit)
\* are the first min(n', N) posts of all_blog_posts, n' being the clamped
\* limit and N the number of content-directory posts; all_blog_posts returns
\* all N posts, count = N, in the same projection and order.
C19_RecentIsPrefixOfAll ==
    /\ (RecentDone /\ "posts" \in DOMAIN last.ret.json)
       => LET all == AllPostsOfServed.posts
              n == last.ret.json.limit
              N == Len(ContentPositions(ServedLinks.url_info))
          IN  /\ Len(last.ret.json.posts) = Min(n, N)
              /\ \A j \in 1..Len(last.ret.json.posts) : last.ret.json.posts[j] = all[j]
    /\ ( /\ pc[MainTask] = "done" /\ last.call.tool = "all_blog_posts" /\ Served
         /\ last.ret.kind = "json" /\ "posts" \in DOMAIN last.ret.json )
       => LET at == ContentPositions(ServedLinks.url_info)
              posts == last.ret.json.posts
          IN  /\ last.ret.json.count = Len(at)
              /\ Len(posts) = Len(at)
              /\ { posts[j].url : j \in 1..Len(posts) }
                    = { BLOG_URL \o ServedLinks.url_info[at[i]].url : i \in 1..Len(at) }
              /\ last.ret.json = AllPostsOfServed

\* limit 2 of four candidates, the first two of all_blog_posts
C19_Witness ==
    /\ RecentDone
    /\ last.call.limit = IntArg(2)
    /\ "posts" \in DOMAIN last.ret.json
    /\ Len(AllPostsOfServed.posts) = 4
    /\ Len(last.ret.json.posts) = 2
    /\ last.ret.json.posts[2] = AllPostsOfServed.posts[2]

\* all_blog_posts over the same document returns the four
C19_WitnessAll ==
    /\ pc[MainTask] = "done" /\ last.call.tool = "all_blog_posts" /\ Served
    /\ last.ret.kind = "json" /\ "posts" \in DOMAIN last.ret.json
    /\ last.ret.json.count = 4

ParseDone == pc[MainTask] = "done" /\ last.call.tool = "parse_markdown_content"

\* the call could not build the post: no download_url to fetch, the fetch
\* failed, or a field of the descriptor that the record needs is missing
ParseFailed ==
    \/ "download_url" \notin DOMAIN last.call.file
    \/ last.event.at = "fetch_markdown" /\ ~last.event.ok
    \/ "name" \notin DOMAIN last.call.file
    \/ "html_url" \notin DOMAIN last.call.file

\* C20: parse_markdown_content never raises: whatever the descriptor and the
\* outcome of the fetch (success, HTTP error, timeout, missing descriptor
\* field) it returns a post record, and on failure the record has title
\* 'Error loading post', content and excerpt 'Error: <cause>' and no date.
C20_ParseNeverRaises ==
    ParseDone =>
      /\ last.ret.kind = "value"
      /\ DOMAIN last.ret.value = {"title", "url", "content", "excerpt", "date", "filename"}
      /\ ParseFailed =>
            /\ last.ret.value.title = ErrorLoadingPost
            /\ DOMAIN last.ret.value.content = {"text", "cause"}
            /\ last.ret.value.content.text = "Error: "
            /\ last.event.at = "fetch_markdown" /\ ~last.event.ok
                  => last.ret.value.content.cause = last.event.answer
            /\ last.ret.value.excerpt = last.ret.value.content
            /\ last.ret.value.date = <<>>

\* the fetch timed out
C20_Witness ==
    /\ ParseDone
    /\ last.event = Response("fetch_markdown", FALSE, "Failed to fetch: timeout")
    /\ last.ret.kind = "value"
    /\ last.ret.value.title = ErrorLoadingPost
    /\ last.ret.value.date = <<>>

\* the text arrived but the descriptor has neither name nor html_url
C20_WitnessMissingField ==
    /\ ParseDone
    /\ last.event.at = "fetch_markdown" /\ last.event.ok
    /\ DOMAIN last.call.file = {"path", "download_url"}
    /\ last.ret.kind = "value"
    /\ last.ret.value.filename = <<"u","n","k","n","o","w","n">>
    /\ last.ret.value.url = <<>>

\* the fetch answered with a text and the descriptor has all its fields
ParsedDone ==
    /\ ParseDone
    /\ last.event.at = "fetch_markdown" /\ last.event.ok
    /\ DOMAIN last.call.file = DOMAIN MyPost

\* a value between one pair of matching quotes, without them
OneLayerUnquoted(v) ==
    IF Len(v) >= 2 /\ v[1] = v[Len(v)] /\ v[1] \in {"\"", "'"}
    THEN SubSeq(v, 2, Len(v) - 1) ELSE v

\* the title as the first heading or title: line of the leading lines gives it
MarkedTitle(text) ==
    LET lines == Split(text, "\n")
        head == [i \in 1..Min(10, Len(lines)) |-> StripSpace(lines[i])]
        marked == {i \in 1..Len(head) :
                     StartsWith(head[i], <<"#"," ">>) \/ StartsWith(head[i], TitleKey)}
    IN  IF marked = {} THEN <<>>
        ELSE LET line == head[CHOOSE i \in marked : \A j \in marked : i <= j]
             IN  IF StartsWith(line, <<"#"," ">>)
                 THEN << StripSpace(SubSeq(line, 3, Len(line))) >>
                 ELSE << OneLayerUnquoted(StripSpace(SubSeq(line, 7, Len(line)))) >>

\* C21: the title is taken from the first of the leading lines that, trimmed,
\* starts with '# ' (the heading text) or with 'title:' (the value with one
\* layer of quotes stripped); when there is no such line it is derived from
\* the file name (my-post.md gives 'My Post'); it never exceeds 200 characters.
C21_TitleFromFirstMarker ==
    ParsedDone =>
      LET marked == MarkedTitle(last.event.answer)
          title == last.ret.value.title
      IN  /\ Len(title) <= 200
          /\ marked # <<>> => title = Take(marked[1], 200)
          /\ marked = <<>> => title = Take(TitleFromName(last.call.file.name), 200)

ChangesRendered ==
    /\ pc[MainTask] = "done"
    /\ last.call.tool = "get_recent_changes"
    /\ last.ret.text \in {"Recent changes (last N days):", "Recent changes (last K commits):"}

\* C22: get_recent_changes(commits=K) renders at most min(K, 100) commit
\* entries, at most 10 when neither days nor commits is given, and
\* get_recent_changes(days=N) renders at most 50.
C22_RenderedCommitsBounded ==
    ChangesRendered =>
      LET rendered == Len(last.ret.detail.commits)
          days == last.call.days
          commits == last.call.commits
      IN  /\ commits # <<>> => rendered <= commits[1] /\ rendered <= 100
          /\ days = <<>> /\ commits = <<>> => rendered <= 10
          /\ days # <<>> => rendered <= 50

\* 51 commits of the last 7 days were listed, 50 are rendered
C22_Witness ==
    /\ ChangesRendered
    /\ last.call.days = <<7>>
    /\ Len(last.ret.detail.commits) = 50

\* commits = 200 asks for 100, and 100 are rendered
C22_WitnessCap ==
    /\ ChangesRendered
    /\ last.call.commits = <<200>>
    /\ Len(last.ret.detail.commits) = 100

TextTools == {"random_blog", "random_blog_url", "read_blog_post", "get_recent_changes"}
JsonTools == {"list_repos", "blog_search", "recent_blog_posts", "all_blog_posts"}

\* what the text tools return when nothing failed: a post, a URL, a report, or
\* the statement that there is nothing to show
OrdinaryTexts ==
    {"", "Blog Post", "Blog Post (via redirect from {path})", "Random Blog Post",
     "Random blog post URL: ", "Recent changes (last N days):",
     "Recent changes (last K commits):", "No blog posts found.",
     "No commits found for the specified criteria.", "Blog post not found for: ",
     "Blog post not found for markdown path: "}

\* the returned texts without their first six characters
Tails ==
    {" ", " URL must be from ", " URL must be a non-empty string",
     " Failed to fetch commit details.",
     " GitHub API rate limit exceeded. Please try again later.",
     " GitHub API returned status ", " Repository or path not found. Path: ",
     " Cannot specify both 'days' and 'commits' parameters. Choose one.",
     " 'days' must be a positive number.", " 'commits' must be a positive number.",
     " When include_diff is true, path must be a specific file, not a directory.",
     " When include_diff is true, path must be a markdown file (ending in .md).",
     "getting random blog URL: ", "getting random blog post: ",
     "getting recent changes: ", "xpected error occurred while reading the blog post: "}

StartsWithErrorColon(text) == \E tail \in Tails : text = "Error:" \o tail

\* C23: a text tool (random_blog, random_blog_url, read_blog_post,
\* get_recent_changes) that reports a failure returns a text starting with
\* 'Error:'; a JSON tool (list_repos, blog_search, recent_blog_posts,
\* all_blog_posts) that reports a failure returns an object with an 'error'
\* key instead of the normal payload.
C23_FailuresAreMarked ==
    pc[MainTask] = "done" =>
      /\ (last.call.tool \in TextTools /\ last.ret.kind = "text"
            /\ last.ret.text \notin OrdinaryTexts)
           => StartsWithErrorColon(last.ret.text)
      /\ last.call.tool \in TextTools => last.ret.kind = "text"
      /\ last.call.tool \in JsonTools =>
            /\ last.ret.kind = "json"
            /\ ("posts" \notin DOMAIN last.ret.json /\ "repositories" \notin DOMAIN last.ret.json)
                 => "error" \in DOMAIN last.ret.json
            /\ "error" \in DOMAIN last.ret.json
                 => "posts" \notin DOMAIN last.ret.json
                    /\ "repositories" \notin DOMAIN last.ret.json

LookupFailed(t) ==
    /\ pc[t] = "get_default_branch"
    /\ pc'[t] = "done"
    /\ last'.event.at = "get_default_branch"
    /\ ~last'.event.ok

\* a lookup of R's default branch that succeeds in this step
LookupSucceeds(t, r) ==
    /\ pc[t] = "get_default_branch"
    /\ frame[t].repo = r
    /\ pc'[t] = "fetch_backlinks"

\* a call that starts after the branch is stored issues no lookup and builds
\* its back-links request with the stored branch; a failed lookup stores
\* nothing and raises BlogError, which get_blog_data passes on when it has no
\* document to fall back to
LaterLookupsUseEntry ==
    \A t \in Tasks :
        /\ (pc[t] = "idle" /\ pc'[t] = "get_default_branch")
              => frame'[t].repo \notin DOMAIN _repo_default_branches
        /\ (pc[t] = "idle" /\ pc'[t] = "fetch_backlinks")
              => frame'[t].default_branch = _repo_default_branches[frame'[t].repo]
        /\ LookupFailed(t)
              => /\ _repo_default_branches' = _repo_default_branches
                 /\ (call[t].tool = "get_blog_data"
                       /\ frame[t].repo \notin DOMAIN _repo_caches)
                      => /\ last'.ret.kind = "raise"
                         /\ last'.ret.exc = "BlogError"

\* C25 as stated: once get_default_branch(R) has stored R's branch, the entry
\* is never changed or removed, and later lookups use it without a request.
C25_BranchEntryNeverChanges ==
    [][ /\ \A r \in DOMAIN _repo_default_branches :
              /\ r \in DOMAIN _repo_default_branches'
              /\ _repo_default_branches'[r] = _repo_default_branches[r]
        /\ LaterLookupsUseEntry ]_vars

\* C25: once get_default_branch(R) has stored R's branch, the entry is never
\* removed and is rewritten only by the answer to a lookup that was already
\* open when it was stored (the last writer wins); a get_default_branch(R)
\* call that starts afterwards issues no request and returns the stored
\* branch; a failed lookup stores no entry and raises BlogError.
C25_BranchEntryLastWriterWins ==
    [][ /\ \A r \in DOMAIN _repo_default_branches :
              /\ r \in DOMAIN _repo_default_branches'
              /\ _repo_default_branches'[r] # _repo_default_branches[r]
                    => \E t \in Tasks : LookupSucceeds(t, r)
        /\ LaterLookupsUseEntry ]_vars

\* a call started with the branch stored is fetching, after an overlapping
\* lookup has rewritten the entry
C25_Witness ==
    \E t \in Tasks :
        /\ pc[t] = "fetch_backlinks"
        /\ frame[t].repo \in DOMAIN _repo_default_branches
        /\ frame[t].default_branch # _repo_default_branches[frame[t].repo]
        /\ frame[t].current_time > 0

\* a lookup failed with no document stored and the call raised
C25_WitnessFailed ==
    /\ \E t \in Tasks : pc[t] = "done"
    /\ last.event.at = "get_default_branch"
    /\ ~last.event.ok
    /\ last.ret.kind = "raise"
    /\ _repo_default_branches = <<>>

RegistryTools == {"list_repos", "get_available_repos"}

\* a wildcard resolution that succeeds in this step
ResolutionSucceeds(t) ==
    /\ pc[t] = "list_user_repos"
    /\ pc'[t] = "done"
    /\ last'.event.ok

\* a call that starts with the registry resolved returns it without a request,
\* and a failed wildcard resolution leaves the registry as it was
LaterCallsUseRegistry ==
    \A t \in Tasks :
        /\ ( /\ pc[t] = "idle"
             /\ pc'[t] # "idle"
             /\ call'[t].tool \in RegistryTools
             /\ _available_repos.resolved )
              => /\ pc'[t] = "done"
                 /\ last'.ret = ReposResult(call'[t], _available_repos.list)
                 /\ _available_repos' = _available_repos
        /\ (pc[t] = "list_user_repos" /\ pc'[t] = "done" /\ ~last'.event.ok)
              => /\ _available_repos' = _available_repos
                 /\ last'.ret.kind \in {"raise", "json"}
                 /\ last'.ret.kind = "json" => "error" \in DOMAIN last'.ret.json

\* C26 as stated: once get_available_repos has returned a list the registry
\* stays that list for good, every later call returns it without a request,
\* and a failed wildcard resolution leaves the registry unresolved.
C26_RegistryNeverChanges ==
    [][ /\ _available_repos.resolved => _available_repos' = _available_repos
        /\ LaterCallsUseRegistry
        /\ \A t \in Tasks :
              (pc[t] = "list_user_repos" /\ pc'[t] = "done" /\ ~last'.event.ok)
                  => ~_available_repos'.resolved ]_vars

\* C26: once resolved the registry never becomes unresolved; a call of
\* get_available_repos that starts afterwards returns the registry as it then
\* is without a request; with an explicit list the registry never changes,
\* with the wildcard it is rewritten only by the answer to a resolution that
\* was already open when it was resolved; a failed wildcard resolution leaves
\* the registry as it was, unresolved if no other resolution has succeeded.
C26_RegistryLastWriterWins ==
    [][ /\ _available_repos.resolved
              => /\ _available_repos'.resolved
                 /\ _available_repos' # _available_repos
                       => /\ IsWildcard(GITHUB_REPOS)
                          /\ \E t \in Tasks : ResolutionSucceeds(t)
        /\ LaterCallsUseRegistry ]_vars

\* with the wildcard, a call that started after the registry was resolved has
\* returned it without a request
C26_Witness ==
    /\ _available_repos.resolved
    /\ \E t \in Tasks :
          /\ pc[t] = "done"
          /\ last.call.tool = "get_available_repos"
          /\ last.event.at = "call"
          /\ last.ret = Value(_available_repos.list)
    /\ IsWildcard(GITHUB_REPOS)

\* a wildcard resolution failed and the registry is still unresolved
C26_WitnessFailed ==
    /\ ~_available_repos.resolved
    /\ last.event.at = "list_user_repos"
    /\ ~last.event.ok

\* the refresh of t for r succeeds in this step
RefreshSucceeds(t, r) ==
    /\ pc[t] = "fetch_backlinks"
    /\ frame[t].repo = r
    /\ pc'[t] = "done"
    /\ last'.event.at = "fetch_backlinks"
    /\ last'.event.ok

Written(old, new, r) == r \in DOMAIN new /\ (r \notin DOMAIN old \/ new[r] # old[r])

\* C27: with get_blog_data calls interleaved, a repository's document and
\* timestamp are only ever written in one step, both by the same successful
\* refresh (the document it fetched, the time it read), nothing is removed,
\* and the two maps always have the same keys.
C27_NoTornCacheEntry ==
    [][ /\ DOMAIN _repo_caches' = DOMAIN _repo_cache_timestamps'
        /\ DOMAIN _repo_caches \subseteq DOMAIN _repo_caches'
        /\ \A r \in DOMAIN _repo_caches' \cup DOMAIN _repo_cache_timestamps' :
              (Written(_repo_caches, _repo_caches', r)
                 \/ Written(_repo_cache_timestamps, _repo_cache_timestamps', r))
                => \E t \in Tasks :
                      /\ RefreshSucceeds(t, r)
                      /\ _repo_caches'[r] = Doc(r, last'.event.answer)
                      /\ _repo_cache_timestamps'[r] = frame[t].current_time ]_vars

\* no single flight: both calls are fetching for the same repository, whose
\* stored document has expired
C27_Witness ==
    \E r \in DOMAIN _repo_caches :
        /\ now - _repo_cache_timestamps[r] >= CACHE_DURATION
        /\ \A t \in Tasks : pc[t] = "fetch_backlinks" /\ frame[t].repo = r

\* the second of two overlapping refreshes has replaced what the first stored
C27_WitnessOverwritten ==
    \E r \in DOMAIN _repo_caches :
        /\ pc = [t \in Tasks |-> "done"]
        /\ \A t \in Tasks : call[t].tool = "get_blog_data" /\ NameOf(call[t].repo) = r
        /\ last.event.at = "fetch_backlinks"
        /\ last.event.ok
        /\ fetchedAt[r] > _repo_cache_timestamps[r]

\* the refresh of a get_blog_data call of t for r fails in this step, at the
\* branch lookup or at the fetch
RefreshFails(t, r) ==
    /\ call[t].tool = "get_blog_data"
    /\ pc[t] \in {"get_default_branch", "fetch_backlinks"}
    /\ frame[t].repo = r
    /\ pc'[t] = "done"
    /\ ~last'.event.ok

Expired(r, caches, stamps, time) == ~IsFresh(r, Shared(caches, stamps, <<>>, time), time)

\* C28: a get_blog_data(R) call whose refresh fails leaves the document and
\* timestamp maps as they were; with no entry for R it raises BlogError and
\* creates none; with an entry it returns the stored document and the entry
\* is as expired afterwards as it was, so that a get_blog_data(R) call
\* starting on an expired entry (R passing validation) issues a request again.
C28_FailedRefreshChangesNothing ==
    [][ \A t \in Tasks :
          /\ \A r \in {"r1", "r2"} :
                RefreshFails(t, r)
                  => /\ _repo_caches' = _repo_caches
                     /\ _repo_cache_timestamps' = _repo_cache_timestamps
                     /\ r \notin DOMAIN _repo_caches
                           => /\ last'.ret.kind = "raise"
                              /\ last'.ret.exc = "BlogError"
                              /\ r \notin DOMAIN _repo_caches'
                     /\ ( /\ r \in DOMAIN _repo_caches
                          /\ Expired(r, _repo_caches, _repo_cache_timestamps, now) )
                           => /\ last'.ret = Value(_repo_caches[r])
                              /\ Expired(r, _repo_caches', _repo_cache_timestamps', now')
          /\ ( /\ pc[t] = "idle"
               /\ pc'[t] # "idle"
               /\ call'[t].tool = "get_blog_data"
               /\ ~validate_repo(call'[t].repo).raise
               /\ NameOf(call'[t].repo) \in DOMAIN _repo_caches
               /\ Expired(NameOf(call'[t].repo), _repo_caches, _repo_cache_timestamps, now) )
                => pc'[t] \in {"get_default_branch", "fetch_backlinks"} ]_vars

\* a refresh has fallen back to the stored document, and the entry is expired
C28_Witness ==
    \E t \in Tasks :
        /\ pc[t] = "done"
        /\ call[t].tool = "get_blog_data"
        /\ last.call = call[t]
        /\ last.event.at = "fetch_backlinks"
        /\ ~last.event.ok
        /\ last.ret.kind = "value"
        /\ Expired(NameOf(call[t].repo), _repo_caches, _repo_cache_timestamps, now)

\* a refresh failed with nothing stored
C28_WitnessNoEntry ==
    /\ pc[MainTask] = "done"
    /\ last.call.tool = "get_blog_data"
    /\ ~last.event.ok
    /\ last.ret.kind = "raise"
    /\ _repo_caches = <<>>

EntryOf(map, r) == IF r \in DOMAIN map THEN <<map[r]>> ELSE <<>>

\* C29: every step of a get_blog_data(R) call (served from the cache,
\* refreshing, or failing) leaves the document, the timestamp and the branch
\* entry of every other repository as they were, and a document the call
\* returns is one that was fetched for R.
C29_OnlyOwnEntries ==
    [][ \A t \in Tasks :
          (pc'[t] # pc[t] /\ pc[t] # "done" /\ call'[t].tool = "get_blog_data")
            => LET R == NameOf(call'[t].repo)
               IN  /\ \A r \in {"r1", "r2", "r3"} \ {R} :
                         /\ EntryOf(_repo_caches', r) = EntryOf(_repo_caches, r)
                         /\ EntryOf(_repo_cache_timestamps', r)
                               = EntryOf(_repo_cache_timestamps, r)
                         /\ EntryOf(_repo_default_branches', r)
                               = EntryOf(_repo_default_branches, r)
                   /\ (pc'[t] = "done" /\ last'.ret.kind = "value")
                         => last'.ret.value.origin = R ]_vars

\* with a document stored for each of two repositories, a call for one has
\* fallen back to its own document
C29_Witness ==
    /\ DOMAIN _repo_caches = {"r1", "r2"}
    /\ \E t \in Tasks :
          /\ pc[t] = "done"
          /\ last.call.tool = "get_blog_data"
          /\ last.call = call[t]
          /\ last.call.repo = "r2"
          /\ last.event.at = "fetch_backlinks"
          /\ ~last.event.ok
          /\ last.ret = Value(_repo_caches["r2"])
          /\ _repo_caches["r1"] # _repo_caches["r2"]

\* a call for one repository was served from the cache while a call for the
\* other was refreshing
C29_WitnessInterleaved ==
    /\ pc[MainTask] = "done"
    /\ last.call.tool = "get_blog_data"
    /\ last.event.at = "call"
    /\ last.ret.kind = "value"
    /\ pc[SecondTask] = "fetch_backlinks"
    /\ frame[SecondTask].repo # last.ret.value.origin

\* the stored timestamp of every repository is the clock value at which its
\* stored document arrived
StampIsFetchTime ==
    \A r \in DOMAIN _repo_caches' : _repo_cache_timestamps'[r] = fetchedAt'[r]

\* timestamps never decrease
StampsNeverDecrease ==
    \A r \in DOMAIN _repo_cache_timestamps :
        _repo_cache_timestamps'[r] >= _repo_cache_timestamps[r]

\* a refresh that replaces a stored document started no earlier than the
\* refresh that had stored it
NoEarlierRefreshWins ==
    \A t \in Tasks : \A r \in DOMAIN _repo_caches :
        RefreshSucceeds(t, r) => frame[t].current_time >= _repo_cache_timestamps[r]

\* C30: for each repository the cache timestamp is the time at which the
\* cached document was fetched and never decreases, and a cached document is
\* never replaced by the result of a refresh that started earlier, also when
\* refreshes of the same repository interleave.
C30_TimestampsMonotonic ==
    [][StampIsFetchTime /\ StampsNeverDecrease /\ NoEarlierRefreshWins]_vars

====
